---- MODULE Spec2Model ----
(***************************************************************************)
(* Truck/order dispatch optimisation (ai-enterpriseai/dispo).              *)
(*                                                                         *)
(* Spec      one run of main_dispo of src/dispo/dispo.py: feasibility      *)
(*           analysis, LP model, solver call, result extraction.           *)
(* SpecMono  two optimal solutions of the dispo.py model for two values of *)
(*           the priority reward factor over one feasibility map.          *)
(* SpecC4    one run of TruckOrderOptimizer.solve of _archive/pulp-1-c4.py.*)
(*                                                                         *)
(* Numbers.  dispo.py works on floats; the model uses exact integers:      *)
(*   distances are in units of 0.01 km (calculate_distance rounds to two   *)
(*   decimals), times are in ticks of 1/TicksPerHour hour, chosen so that  *)
(*   distance / AVERAGE_SPEED_KMH is a whole number of ticks.  Locations   *)
(*   lie on one meridian at whole degrees of latitude, where the haversine *)
(*   distance depends on the difference in latitude only.                  *)
(***************************************************************************)
EXTENDS Integers, Sequences, FiniteSets, TLC

VARIABLES
    \* ---- dispo.py, main_dispo ----
    truck_list,                     \* list of Truck objects
    order_list,                     \* list of Order objects
    pc,                             \* position of main_dispo
    permissible_pairs_with_values,  \* dict (truck_id, order_id) -> values
    optimization_problem,           \* the pulp.LpProblem (objective, constraints)
    x_decision_variables,           \* dict key -> varValue of the LpVariable
    status,                         \* value returned by solve_optimization_problem
    assigned_details,               \* results of extract_and_show_results:
    unassigned_obj,                 \*   the two lists are empty and truck_util
    truck_util,                     \*   is None until it has returned
    saved_files,                    \* prefixes handed to save_csv_file, in order
    \* ---- monotonicity experiment on create_lp_model ----
    mono_pc,
    priority_factors,               \* <<P1, P2>>
    mono_solutions,                 \* <<varValues for P1, varValues for P2>>
    \* ---- _archive/pulp-1-c4.py, TruckOrderOptimizer ----
    c4_pc,
    c4_trucks,                      \* self.trucks
    c4_orders,                      \* self.orders
    cost_matrix,                    \* self.cost_matrix
    c4_model,                       \* self.model
    c4_variables,                   \* self.variables: key -> value
    c4_model_status,                \* self.model.status
    c4_result,                      \* the OptimizationResult returned by solve
    c4_analysis,                    \* analysis of main
    \* ---- _archive/claude-2.py main, _archive/truck_assignment.py main ----
    c2_pc,
    c2_program,                     \* "claude-2" or "truck_assignment"
    c2_input_trucks,                \* the trucks as the demo data defined them
    c2_trucks,                      \* trucks (current_load is mutated)
    c2_orders,                      \* orders (assigned_truck is mutated)
    c2_strategy,                    \* position in the strategies dict
    c2_sorted,                      \* sorted_trucks / sorted_orders of assign
    c2_index,                       \* position of the for loop of assign
    c2_available_orders,            \* available_orders of assign
    c2_assignments,                 \* assignments of assign
    c2_returned,                    \* the tuple the last assign returned
    c2_best,                        \* best_strategy, best_assignments, ...
    c2_analysis,                    \* analysis of main
    c2_analysis_again,              \* result of a repeated analyze_assignments
    \* ---- two calls of determine_permissible_pairs_and_values ----
    det_pc,
    det_second,                     \* the map the second call returned
    \* ---- the travel time functions on a configured speed ----
    tt_pc,
    tt_distance,
    tt_speed,
    tt_result,
    \* ---- construction of dispo.py entities from raw arguments ----
    ctor_pc,
    ctor_truck_args,
    ctor_order_args,
    \* ---- _archive/pulp-1-c4.py, TimeWindow.overlaps_with on two windows ----
    ow_pc,
    ow_a,
    ow_b,
    ow_result,                      \* ow_a.overlaps_with(ow_b)
    ow_reverse,                     \* ow_b.overlaps_with(ow_a)
    \* ---- _archive/pulp-1-o4.py, build_and_solve and process_results ----
    o4_pc,
    o4_trucks,
    o4_orders,
    o4_x,                           \* x: key -> value of the LpVariable
    o4_status,                      \* result_status
    o4_report,                      \* what process_results saved and printed
    \* ---- _archive/tms_o4.py, greedy_assignment ----
    tms_pc,
    tms_trucks,
    tms_orders,
    remaining_trucks,
    remaining_orders,
    tms_assignments,
    \* ---- the result files of a run of main_dispo and api/server.py ----
    api_pc,
    clock,                          \* datetime.now(), in seconds
    files,                          \* the files of OUTPUT_DIR
    api_results,                    \* what get_latest_results returned
    \* ---- the feasibility record of one truck and one order, in floats ----
    tour_pc,
    tour_truck,
    tour_order,
    tour_values                     \* the dict stored for the pair, or None

vars == <<truck_list, order_list, pc, permissible_pairs_with_values,
          optimization_problem, x_decision_variables, status,
          assigned_details, unassigned_obj, truck_util, saved_files,
          mono_pc, priority_factors, mono_solutions,
          c4_pc, c4_trucks, c4_orders, cost_matrix, c4_model, c4_variables,
          c4_model_status, c4_result, c4_analysis,
          c2_pc, c2_program, c2_input_trucks, c2_trucks, c2_orders, c2_strategy,
          c2_sorted, c2_index, c2_available_orders, c2_assignments, c2_returned,
          c2_best, c2_analysis, c2_analysis_again,
          det_pc, det_second, tt_pc, tt_distance, tt_speed, tt_result,
          ctor_pc, ctor_truck_args, ctor_order_args,
          ow_pc, ow_a, ow_b, ow_result, ow_reverse,
          o4_pc, o4_trucks, o4_orders, o4_x, o4_status, o4_report,
          tms_pc, tms_trucks, tms_orders, remaining_trucks, remaining_orders,
          tms_assignments,
          api_pc, clock, files, api_results,
          tour_pc, tour_truck, tour_order, tour_values>>

dispoVars == <<truck_list, order_list, pc, permissible_pairs_with_values,
               optimization_problem, x_decision_variables, status,
               assigned_details, unassigned_obj, truck_util, saved_files>>

monoVars == <<mono_pc, priority_factors, mono_solutions>>

c4Vars == <<c4_pc, c4_trucks, c4_orders, cost_matrix, c4_model, c4_variables,
            c4_model_status, c4_result, c4_analysis>>

c2Vars == <<c2_pc, c2_program, c2_input_trucks, c2_trucks, c2_orders, c2_strategy,
            c2_sorted, c2_index, c2_available_orders, c2_assignments, c2_returned,
            c2_best, c2_analysis, c2_analysis_again>>

detVars == <<det_pc, det_second>>

ttVars == <<tt_pc, tt_distance, tt_speed, tt_result>>

ctorVars == <<ctor_pc, ctor_truck_args, ctor_order_args>>

owVars == <<ow_pc, ow_a, ow_b, ow_result, ow_reverse>>

o4Vars == <<o4_pc, o4_trucks, o4_orders, o4_x, o4_status, o4_report>>

tmsVars == <<tms_pc, tms_trucks, tms_orders, remaining_trucks, remaining_orders,
             tms_assignments>>

apiVars == <<api_pc, clock, files, api_results>>

tourVars == <<tour_pc, tour_truck, tour_order, tour_values>>

\* the variables of the remaining archive programs and of the API
extVars == <<owVars, o4Vars, tmsVars, apiVars, tourVars>>

\* the variables of the experiments on single functions
auxVars == <<detVars, ttVars, ctorVars, extVars>>

-----------------------------------------------------------------------------
(* Bounds of the model *)

NumTrucks == 2      \* longest truck list
NumOrders == 2      \* longest order list

(* Python's None where an object, an id or a dict is expected *)
None == [none |-> TRUE]

(* a status variable that has not been assigned *)
NoStatus == "None"

(* varValue of an LpVariable the solver has set no value for *)
NoValue == 0 - 1

-----------------------------------------------------------------------------
(* Generic helpers *)

RECURSIVE SumOver(_, _)
SumOver(S, f) ==
    IF S = {} THEN 0
    ELSE LET e == CHOOSE e \in S : TRUE
         IN f[e] + SumOver(S \ {e}, f)

MaxOf(S) == CHOOSE m \in S : \A n \in S : m >= n

Max2(a, b) == IF a >= b THEN a ELSE b

Abs(a) == IF a >= 0 THEN a ELSE 0 - a

Range(s) == {s[i] : i \in 1..Len(s)}

RECURSIVE SelectSeqBy(_, _)
\* the elements of sequence s that are in set S, in the order of s
SelectSeqBy(s, S) ==
    IF s = <<>> THEN <<>>
    ELSE IF Head(s) \in S THEN <<Head(s)>> \o SelectSeqBy(Tail(s), S)
         ELSE SelectSeqBy(Tail(s), S)

RECURSIVE InsertByKey(_, _)
\* insert the entry e = [key, item] behind every entry whose key is not greater
InsertByKey(s, e) ==
    IF s = <<>> THEN <<e>>
    ELSE IF e.key < Head(s).key THEN <<e>> \o s
         ELSE <<Head(s)>> \o InsertByKey(Tail(s), e)

RECURSIVE SortEntries(_)
SortEntries(s) ==
    IF s = <<>> THEN <<>>
    ELSE InsertByKey(SortEntries(SubSeq(s, 1, Len(s) - 1)), s[Len(s)])

\* list.sort(key=...): a stable sort of s by the integer key Key[i] of s[i]
StableSort(s, Key) ==
    LET sorted == SortEntries([i \in 1..Len(s) |-> [key |-> Key[i], item |-> s[i]]])
    IN [i \in 1..Len(s) |-> sorted[i].item]

-----------------------------------------------------------------------------
(* dispo.py: constants *)

AVERAGE_SPEED_KMH == 80
PRIORITY_WEIGHT_FACTOR == 10000
DISTANCE_COST_FACTOR == 1

\* PRIORITIES_MAP with the priority number itself taken as the weight
PRIORITIES_MAP_NumberAsWeight(priority) ==
    IF priority \in {1, 2, 3} THEN priority ELSE 0

\* PRIORITIES_MAP.get(priority, 0)
PRIORITIES_MAP(priority) ==
    CASE priority = 1 -> 3
      [] priority = 2 -> 2
      [] priority = 3 -> 1
      [] OTHER -> 0

\* one hour in ticks: a distance of 0.01 km takes exactly one tick
TicksPerHour == 100 * AVERAGE_SPEED_KMH

\* the 0.01 h tolerance of the time checks
Epsilon == TicksPerHour \div 100

\* float('inf')
Infinity == 1000000000

Hours(h, hundredths) == h * TicksPerHour + hundredths * Epsilon

-----------------------------------------------------------------------------
(* dispo.py: helper functions *)

\* haversine distance of two points of one meridian, rounded to 0.01 km:
\* round(6371 * radians(dlat), 2) for dlat = 0..4 degrees
calculate_distance(point1, point2) ==
    LET dlat == Abs(point1[1] - point2[1])
    IN CASE dlat = 0 -> 0
         [] dlat = 1 -> 11119
         [] dlat = 2 -> 22239
         [] dlat = 3 -> 33358
         [] dlat = 4 -> 44478

\* calculate_travel_time_h with the module constant AVERAGE_SPEED_KMH set to
\* average_speed_kmh; the result is in ticks, rounded down
calculate_travel_time_h_configured(distance_km, average_speed_kmh) ==
    IF average_speed_kmh <= 0 THEN Infinity
    ELSE (distance_km * TicksPerHour) \div (100 * average_speed_kmh)

calculate_travel_time_h(distance_km) ==
    calculate_travel_time_h_configured(distance_km, AVERAGE_SPEED_KMH)

-----------------------------------------------------------------------------
(* dispo.py: entities and the inputs of a run *)

Truck(truck_id, lat, capacity_kg, available_from_h, available_until_h) ==
    [truck_id |-> <<"LKW", truck_id>>, location |-> <<lat, 13>>,
     capacity_kg |-> capacity_kg,
     available_from_h |-> available_from_h,
     available_until_h |-> available_until_h]

Order(order_id, loading_lat, unloading_lat, weight_kg, loading_window_early_h, loading_window_late_h, loading_duration_h, unloading_duration_h, priority) ==
    [order_id |-> <<"AUF", order_id>>,
     loading_site |-> <<loading_lat, 13>>,
     unloading_site |-> <<unloading_lat, 13>>,
     weight_kg |-> weight_kg,
     loading_window_early_h |-> loading_window_early_h,
     loading_window_late_h |-> loading_window_late_h,
     loading_duration_h |-> loading_duration_h,
     unloading_duration_h |-> unloading_duration_h,
     priority |-> priority]

\* the fleets a run is tried on: truck i of the list has the id LKW<i>
TruckProfiles(i) ==
    { Truck(i, 52, 20, Hours(6, 0), Hours(18, 0)),
      Truck(i, 50, 30, Hours(7, 0), Hours(9, 0)),
      Truck(i, 51, 30, Hours(7, 0), Hours(17, 0)) }

\* the order books a run is tried on: order j of the list is AUF<j>
OrderProfiles(j) ==
    { Order(j, 51, 51, 25, Hours(8, 0),  Hours(12, 0),  Hours(1, 0),  Hours(1, 0), 1),
      Order(j, 52, 52, 10, Hours(8, 0),  Hours(10, 0),  Hours(0, 50), Hours(0, 50), 2),
      Order(j, 52, 50, 10, Hours(7, 0),  Hours(9, 38),  Hours(1, 0),  Hours(1, 0), 3),
      Order(j, 50, 51, 10, Hours(14, 0), Hours(16, 0),  Hours(1, 0),  Hours(1, 0), 1),
      Order(j, 51, 51, 10, Hours(15, 0), Hours(16, 0),  Hours(1, 0),  Hours(1, 1), 2) }

TruckLists ==
    UNION { { s \in [1..n -> UNION {TruckProfiles(i) : i \in 1..n}] :
                \A i \in 1..n : s[i] \in TruckProfiles(i) } : n \in 0..NumTrucks }

OrderLists ==
    UNION { { s \in [1..n -> UNION {OrderProfiles(j) : j \in 1..n}] :
                \A j \in 1..n : s[j] \in OrderProfiles(j) } : n \in 0..NumOrders }

-----------------------------------------------------------------------------
(* dispo.py: determine_permissible_pairs_and_values *)

\* PairValues without the capacity check
PairValues_NoCapacityCheck(truck, order) ==
    LET approach_distance == calculate_distance(truck.location, order.loading_site)
        arrival == truck.available_from_h + calculate_travel_time_h(approach_distance)
        loading_start == Max2(arrival, order.loading_window_early_h)
        loading_end == loading_start + order.loading_duration_h
        transport_distance == calculate_distance(order.loading_site, order.unloading_site)
        arrival_unloading == loading_end + calculate_travel_time_h(transport_distance)
        unloading_end == arrival_unloading + order.unloading_duration_h
    IN  IF loading_start > order.loading_window_late_h - order.loading_duration_h + Epsilon
        THEN None
        ELSE IF unloading_end > truck.available_until_h + Epsilon THEN None
        ELSE [distanz_anfahrt |-> approach_distance,
              distanz_transport |-> transport_distance,
              distanz_gesamt_fuer_auftrag |-> approach_distance + transport_distance,
              prio_original |-> order.priority,
              prio_gewicht |-> PRIORITIES_MAP(order.priority),
              anfahrt_lkw_h |-> arrival,
              ladebeginn_calc_h |-> loading_start,
              ladeende_calc_h |-> loading_end,
              ankunft_entladestelle_calc_h |-> arrival_unloading,
              entladung_ende_calc_h |-> unloading_end,
              gesamtdauer_auftrag_ab_lkw_start_h |-> unloading_end - truck.available_from_h]

\* PairValues without the tolerance of the loading-window check
PairValues_NoTolerance(truck, order) ==
    IF truck.capacity_kg < order.weight_kg THEN None
    ELSE
    LET approach_distance == calculate_distance(truck.location, order.loading_site)
        arrival == truck.available_from_h + calculate_travel_time_h(approach_distance)
        loading_start == Max2(arrival, order.loading_window_early_h)
        loading_end == loading_start + order.loading_duration_h
        transport_distance == calculate_distance(order.loading_site, order.unloading_site)
        arrival_unloading == loading_end + calculate_travel_time_h(transport_distance)
        unloading_end == arrival_unloading + order.unloading_duration_h
    IN  IF loading_start > order.loading_window_late_h - order.loading_duration_h
        THEN None
        ELSE IF unloading_end > truck.available_until_h + Epsilon THEN None
        ELSE [distanz_anfahrt |-> approach_distance,
              distanz_transport |-> transport_distance,
              distanz_gesamt_fuer_auftrag |-> approach_distance + transport_distance,
              prio_original |-> order.priority,
              prio_gewicht |-> PRIORITIES_MAP(order.priority),
              anfahrt_lkw_h |-> arrival,
              ladebeginn_calc_h |-> loading_start,
              ladeende_calc_h |-> loading_end,
              ankunft_entladestelle_calc_h |-> arrival_unloading,
              entladung_ende_calc_h |-> unloading_end,
              gesamtdauer_auftrag_ab_lkw_start_h |-> unloading_end - truck.available_from_h]

\* the body of the double loop for one (truck, order): None where the code
\* says "continue", otherwise the dict stored under (truck_id, order_id)
PairValues(truck, order) ==
    IF truck.capacity_kg < order.weight_kg THEN None
    ELSE
    LET approach_distance == calculate_distance(truck.location, order.loading_site)
        approach_time_h == calculate_travel_time_h(approach_distance)
        arrival_loading_site_truck_h == truck.available_from_h + approach_time_h
        loading_start_calc_h ==
            Max2(arrival_loading_site_truck_h, order.loading_window_early_h)
        latest_loading_start_order_h ==
            order.loading_window_late_h - order.loading_duration_h
        loading_end_calc_h == loading_start_calc_h + order.loading_duration_h
        transport_distance == calculate_distance(order.loading_site, order.unloading_site)
        transport_time_h == calculate_travel_time_h(transport_distance)
        arrival_unloading_site_calc_h == loading_end_calc_h + transport_time_h
        unloading_end_calc_h == arrival_unloading_site_calc_h + order.unloading_duration_h
        total_distance_for_order == approach_distance + transport_distance
    IN  IF loading_start_calc_h > latest_loading_start_order_h + Epsilon THEN None
        ELSE IF unloading_end_calc_h > truck.available_until_h + Epsilon THEN None
        ELSE [distanz_anfahrt |-> approach_distance,
              distanz_transport |-> transport_distance,
              distanz_gesamt_fuer_auftrag |-> total_distance_for_order,
              prio_original |-> order.priority,
              prio_gewicht |-> PRIORITIES_MAP(order.priority),
              anfahrt_lkw_h |-> arrival_loading_site_truck_h,
              ladebeginn_calc_h |-> loading_start_calc_h,
              ladeende_calc_h |-> loading_end_calc_h,
              ankunft_entladestelle_calc_h |-> arrival_unloading_site_calc_h,
              entladung_ende_calc_h |-> unloading_end_calc_h,
              gesamtdauer_auftrag_ab_lkw_start_h |->
                  unloading_end_calc_h - truck.available_from_h]

\* next((t for t in truck_list if t.truck_id == truck_id), None)
TruckById(tl, truck_id) ==
    IF \E i \in 1..Len(tl) : tl[i].truck_id = truck_id
    THEN tl[CHOOSE i \in 1..Len(tl) :
                /\ tl[i].truck_id = truck_id
                /\ \A k \in 1..(i - 1) : tl[k].truck_id # truck_id]
    ELSE None

\* next((o for o in order_list if o.order_id == order_id), None)
OrderById(ol, order_id) ==
    IF \E j \in 1..Len(ol) : ol[j].order_id = order_id
    THEN ol[CHOOSE j \in 1..Len(ol) :
                /\ ol[j].order_id = order_id
                /\ \A k \in 1..(j - 1) : ol[k].order_id # order_id]
    ELSE None

\* the dict built by the double loop (ids are unique within a list)
determine_permissible_pairs_and_values(tl, ol) ==
    LET keys == { <<tl[i].truck_id, ol[j].order_id>> :
                    <<i, j>> \in { p \in (1..Len(tl)) \X (1..Len(ol)) :
                                     PairValues(tl[p[1]], ol[p[2]]) # None } }
    IN [key \in keys |-> PairValues(TruckById(tl, key[1]), OrderById(ol, key[2]))]

\* the (truck_id, order_id) of the double loop, truck by truck: the
\* insertion order of the dict's keys
PairsInLoopOrder(tl, ol) ==
    [k \in 1..(Len(tl) * Len(ol)) |->
        << tl[((k - 1) \div Len(ol)) + 1].truck_id,
           ol[((k - 1) % Len(ol)) + 1].order_id >>]

-----------------------------------------------------------------------------
(* The LP problem handed to the solver: an objective and linear constraints  *)
(* over binary variables.  coefficient maps are functions key -> Int.        *)

Constraint(name, coeffs, sense, rhs) ==
    [name |-> name, coeffs |-> coeffs, sense |-> sense, rhs |-> rhs]

\* value of a linear expression under variable values x
LinearValue(coeffs, x) ==
    SumOver(DOMAIN coeffs, [k \in DOMAIN coeffs |-> coeffs[k] * x[k]])

\* create_lp_model_with without the constraints "Truck_<id>_max_one_order"
create_lp_model_with_OrderLimitOnly(tl, ol, perm, priority_weight_factor, distance_cost_factor) ==
    LET x_vars == DOMAIN perm
    IN [prob |-> [sense |-> "LpMaximize",
                  objective |->
                      [pair_key \in x_vars |->
                          100 * priority_weight_factor * perm[pair_key].prio_gewicht
                          - distance_cost_factor * perm[pair_key].distanz_gesamt_fuer_auftrag],
                  constraints |->
                      { Constraint(<<"Order", ol[j].order_id, "max_once">>,
                                   [key \in { k \in x_vars : k[2] = ol[j].order_id } |-> 1],
                                   "<=", 1) : j \in 1..Len(ol) }],
        x_vars |-> x_vars]

\* create_lp_model_with whose net value adds the distance penalty
create_lp_model_with_PenaltyAdded(tl, ol, perm, priority_weight_factor, distance_cost_factor) ==
    LET x_vars == DOMAIN perm
    IN [prob |-> [sense |-> "LpMaximize",
                  objective |->
                      [pair_key \in x_vars |->
                          100 * priority_weight_factor * perm[pair_key].prio_gewicht
                          + distance_cost_factor * perm[pair_key].distanz_gesamt_fuer_auftrag],
                  constraints |->
                      { Constraint(<<"Order", ol[j].order_id, "max_once">>,
                                   [key \in { k \in x_vars : k[2] = ol[j].order_id } |-> 1],
                                   "<=", 1) : j \in 1..Len(ol) }
                      \cup
                      { Constraint(<<"Truck", tl[i].truck_id, "max_one_order">>,
                                   [key \in { k \in x_vars : k[1] = tl[i].truck_id } |-> 1],
                                   "<=", 1) : i \in 1..Len(tl) }],
        x_vars |-> x_vars]

\* dispo.py create_lp_model with the two factors of the objective as
\* parameters; objective coefficients are in units of 0.01
create_lp_model_with(tl, ol, perm, priority_weight_factor, distance_cost_factor) ==
    LET x_vars == DOMAIN perm
        objective ==
            [pair_key \in x_vars |->
                LET priority_reward == priority_weight_factor * perm[pair_key].prio_gewicht
                    distance_penalty ==
                        distance_cost_factor * perm[pair_key].distanz_gesamt_fuer_auftrag
                IN 100 * priority_reward - distance_penalty]
        order_max_once ==
            { Constraint(<<"Order", ol[j].order_id, "max_once">>,
                         [key \in { k \in x_vars : k[2] = ol[j].order_id } |-> 1],
                         "<=", 1) : j \in 1..Len(ol) }
        truck_max_one_order ==
            { Constraint(<<"Truck", tl[i].truck_id, "max_one_order">>,
                         [key \in { k \in x_vars : k[1] = tl[i].truck_id } |-> 1],
                         "<=", 1) : i \in 1..Len(tl) }
    IN [prob |-> [sense |-> "LpMaximize",
                  objective |-> objective,
                  constraints |-> order_max_once \cup truck_max_one_order],
        x_vars |-> x_vars]

create_lp_model(tl, ol, perm) ==
    create_lp_model_with(tl, ol, perm, PRIORITY_WEIGHT_FACTOR, DISTANCE_COST_FACTOR)

-----------------------------------------------------------------------------
(* The solver collaborator (pulp with CBC), a black box: it returns a status *)
(* and, when it found a solution, values of the variables.                   *)

LpStatusOptimal == "Optimal"
LpStatusFeasible == "Feasible"
LpStatusInfeasible == "Infeasible"
LpStatusNotSolved == "Not Solved"
LpStatusUndefined == "Undefined"
LpStatusUnbounded == "Unbounded"

SatisfiesConstraint(c, x) ==
    LET lhs == LinearValue(c.coeffs, x)
    IN CASE c.sense = "<=" -> lhs <= c.rhs
         [] c.sense = "==" -> lhs = c.rhs
         [] c.sense = ">=" -> lhs >= c.rhs

\* the 0/1 variable values that satisfy every constraint of the problem
Solutions(prob, keys) ==
    { x \in [keys -> {0, 1}] : \A c \in prob.constraints : SatisfiesConstraint(c, x) }

ObjectiveValue(prob, x) == LinearValue(prob.objective, x)

OptimalSolutions(prob, keys) ==
    LET sols == Solutions(prob, keys)
        values == { ObjectiveValue(prob, x) : x \in sols }
        best == IF prob.sense = "LpMaximize"
                THEN MaxOf(values)
                ELSE 0 - MaxOf({ 0 - v : v \in values })
    IN { x \in sols : ObjectiveValue(prob, x) = best }

\* everything a call of problem.solve() can come back with:
\*   Optimal with a best solution, Feasible with any solution (a limit was
\*   reached), Infeasible when no solution exists, Not Solved or Undefined
\*   when the solver failed; a failed or infeasible solve sets no value
SolverOutcomes(prob, keys) ==
    LET unset == [k \in keys |-> NoValue]
    IN [status : {LpStatusOptimal}, values : OptimalSolutions(prob, keys)]
       \cup [status : {LpStatusFeasible}, values : Solutions(prob, keys)]
       \cup [status : IF Solutions(prob, keys) = {} THEN {LpStatusInfeasible} ELSE {},
             values : {unset}]
       \cup [status : {LpStatusNotSolved, LpStatusUndefined}, values : {unset}]

-----------------------------------------------------------------------------
(* dispo.py: extract_and_show_results *)

\* sort key of a tuple (priority, id): ids LKW<n>, AUF<n> sort by n for n < 10
TupleKey(a, b) == a * 1000 + b

RECURSIVE RemoveFirst(_, _)
\* list.remove(e)
RemoveFirst(s, e) ==
    IF s = <<>> THEN <<>>
    ELSE IF Head(s) = e THEN Tail(s)
         ELSE <<Head(s)>> \o RemoveFirst(Tail(s), e)

\* a pass that reports the approach distance as the total distance of the tour
ExtractOne_ApproachAsTotal(acc, key, tl, ol, perm) ==
    LET truck_id == key[1]
        order_id == key[2]
        truck_obj == TruckById(tl, truck_id)
        order_obj == OrderById(ol, order_id)
    IN IF key \notin DOMAIN perm \/ truck_obj = None \/ order_obj = None
       THEN acc
       ELSE
       LET values_info == perm[key]
           detail ==
             [lkw_id |-> truck_id,
              auftrag_id |-> order_id,
              anfahrt_dist_km |-> values_info.distanz_anfahrt,
              transport_dist_km |-> values_info.distanz_transport,
              gesamtdistanz_fuer_auftrag_km |-> values_info.distanz_anfahrt,
              ladebeginn_h |-> values_info.ladebeginn_calc_h,
              ladeende_h |-> values_info.ladeende_calc_h,
              entladung_ende_h |-> values_info.entladung_ende_calc_h,
              auftrag_prio_original |-> order_obj.priority,
              auftrag_prio_gewicht |-> values_info.prio_gewicht,
              auftrag_gewicht_kg |-> order_obj.weight_kg,
              lkw_kapazitaet_kg |-> truck_obj.capacity_kg,
              lkw_verfuegbar_bis_h |-> truck_obj.available_until_h]
       IN [assigned_orders_details |-> Append(acc.assigned_orders_details, detail),
           unassigned_orders_obj |->
               IF order_obj \in Range(acc.unassigned_orders_obj)
               THEN RemoveFirst(acc.unassigned_orders_obj, order_obj)
               ELSE acc.unassigned_orders_obj,
           truck_utilization |->
               [acc.truck_utilization EXCEPT
                   ![truck_id] = [zugewiesener_auftrag |-> order_id, details |-> detail]],
           total_distance_final_km |->
               acc.total_distance_final_km + values_info.distanz_gesamt_fuer_auftrag]

\* one pass of the loop over active_assignments_keys
ExtractOne(acc, key, tl, ol, perm) ==
    LET truck_id == key[1]
        order_id == key[2]
        truck_obj == TruckById(tl, truck_id)
        order_obj == OrderById(ol, order_id)
    IN IF key \notin DOMAIN perm \/ truck_obj = None \/ order_obj = None
       THEN acc
       ELSE
       LET values_info == perm[key]
           detail ==
             [lkw_id |-> truck_id,
              auftrag_id |-> order_id,
              anfahrt_dist_km |-> values_info.distanz_anfahrt,
              transport_dist_km |-> values_info.distanz_transport,
              gesamtdistanz_fuer_auftrag_km |-> values_info.distanz_gesamt_fuer_auftrag,
              ladebeginn_h |-> values_info.ladebeginn_calc_h,
              ladeende_h |-> values_info.ladeende_calc_h,
              entladung_ende_h |-> values_info.entladung_ende_calc_h,
              auftrag_prio_original |-> order_obj.priority,
              auftrag_prio_gewicht |-> values_info.prio_gewicht,
              auftrag_gewicht_kg |-> order_obj.weight_kg,
              lkw_kapazitaet_kg |-> truck_obj.capacity_kg,
              lkw_verfuegbar_bis_h |-> truck_obj.available_until_h]
       IN [assigned_orders_details |-> Append(acc.assigned_orders_details, detail),
           unassigned_orders_obj |->
               IF order_obj \in Range(acc.unassigned_orders_obj)
               THEN RemoveFirst(acc.unassigned_orders_obj, order_obj)
               ELSE acc.unassigned_orders_obj,
           truck_utilization |->
               [acc.truck_utilization EXCEPT
                   ![truck_id] = [zugewiesener_auftrag |-> order_id, details |-> detail]],
           total_distance_final_km |->
               acc.total_distance_final_km + values_info.distanz_gesamt_fuer_auftrag]

RECURSIVE ExtractLoop(_, _, _, _, _)
ExtractLoop(acc, keys, tl, ol, perm) ==
    IF keys = <<>> THEN acc
    ELSE ExtractLoop(ExtractOne(acc, Head(keys), tl, ol, perm), Tail(keys), tl, ol, perm)

\* extract_and_show_results whose unassigned list starts empty
extract_and_show_results_EmptyUnassigned(x_variables_dict, tl, ol, perm, st) ==
    LET start ==
          [assigned_orders_details |-> <<>>,
           unassigned_orders_obj |-> <<>>,
           truck_utilization |->
               [id \in { tl[i].truck_id : i \in 1..Len(tl) } |->
                   [zugewiesener_auftrag |-> None, details |-> None]],
           total_distance_final_km |-> 0]
        looped ==
          IF st = LpStatusOptimal \/ st = LpStatusFeasible
          THEN ExtractLoop(start,
                           SelectSeqBy(PairsInLoopOrder(tl, ol),
                                       { k \in DOMAIN x_variables_dict :
                                           2 * x_variables_dict[k] > 1 }),
                           tl, ol, perm)
          ELSE start
        details == looped.assigned_orders_details
    IN [looped EXCEPT
          !.assigned_orders_details =
              StableSort(details,
                         [i \in 1..Len(details) |->
                             TupleKey(details[i].auftrag_prio_original, details[i].lkw_id[2])])]

\* the triple returned by extract_and_show_results, and the total distance
\* it prints; prob_obj is read for printing only
extract_and_show_results(x_variables_dict, tl, ol, perm, st) ==
    LET start ==
          [assigned_orders_details |-> <<>>,
           unassigned_orders_obj |-> ol,
           truck_utilization |->
               [id \in { tl[i].truck_id : i \in 1..Len(tl) } |->
                   [zugewiesener_auftrag |-> None, details |-> None]],
           total_distance_final_km |-> 0]
        looped ==
          IF st = LpStatusOptimal \/ st = LpStatusFeasible
          THEN LET active_assignments_keys ==
                     SelectSeqBy(PairsInLoopOrder(tl, ol),
                                 { k \in DOMAIN x_variables_dict :
                                     2 * x_variables_dict[k] > 1 })
               IN ExtractLoop(start, active_assignments_keys, tl, ol, perm)
          ELSE start
        details == looped.assigned_orders_details
        unassigned == looped.unassigned_orders_obj
    IN [looped EXCEPT
          !.assigned_orders_details =
              StableSort(details,
                         [i \in 1..Len(details) |->
                             TupleKey(details[i].auftrag_prio_original, details[i].lkw_id[2])]),
          !.unassigned_orders_obj =
              StableSort(unassigned,
                         [i \in 1..Len(unassigned) |->
                             TupleKey(unassigned[i].priority, unassigned[i].order_id[2])])]

-----------------------------------------------------------------------------
(* dispo.py: main_dispo, step by step *)

\* save_csv_file(_, "rohdaten_lkw"); save_csv_file(_, "rohdaten_auftraege")
SaveRawData ==
    /\ pc = "save_raw"
    /\ saved_files' = saved_files \o <<"rohdaten_lkw", "rohdaten_auftraege">>
    /\ pc' = "pairs"
    /\ UNCHANGED <<truck_list, order_list, permissible_pairs_with_values,
                   optimization_problem, x_decision_variables, status,
                   assigned_details, unassigned_obj, truck_util>>
    /\ UNCHANGED <<monoVars, c4Vars, c2Vars, auxVars>>

\* step 2: the feasibility map; an empty map ends the run ("Abbruch")
DeterminePairs ==
    /\ pc = "pairs"
    /\ LET perm == determine_permissible_pairs_and_values(truck_list, order_list)
       IN /\ permissible_pairs_with_values' = perm
          /\ pc' = IF DOMAIN perm = {} THEN "done" ELSE "create_model"
    /\ UNCHANGED <<truck_list, order_list, optimization_problem,
                   x_decision_variables, status, assigned_details,
                   unassigned_obj, truck_util, saved_files>>
    /\ UNCHANGED <<monoVars, c4Vars, c2Vars, auxVars>>

\* step 3: create_lp_model; the variables have no value yet
CreateLpModel ==
    /\ pc = "create_model"
    /\ LET m == create_lp_model(truck_list, order_list, permissible_pairs_with_values)
       IN /\ optimization_problem' = m.prob
          /\ x_decision_variables' = [k \in m.x_vars |-> NoValue]
    /\ pc' = "solve"
    /\ UNCHANGED <<truck_list, order_list, permissible_pairs_with_values, status,
                   assigned_details, unassigned_obj, truck_util, saved_files>>
    /\ UNCHANGED <<monoVars, c4Vars, c2Vars, auxVars>>

\* step 4: solve_optimization_problem calls problem.solve()
SubmitModel ==
    /\ pc = "solve"
    /\ pc' = "solving"
    /\ UNCHANGED <<truck_list, order_list, permissible_pairs_with_values,
                   optimization_problem, x_decision_variables, status,
                   assigned_details, unassigned_obj, truck_util, saved_files>>
    /\ UNCHANGED <<monoVars, c4Vars, c2Vars, auxVars>>

\* problem.solve() returns: the status, and the values of the variables
SolverReturns ==
    /\ pc = "solving"
    /\ \E outcome \in SolverOutcomes(optimization_problem, DOMAIN x_decision_variables) :
          /\ status' = outcome.status
          /\ x_decision_variables' = outcome.values
    /\ pc' = "extract"
    /\ UNCHANGED <<truck_list, order_list, permissible_pairs_with_values,
                   optimization_problem, assigned_details, unassigned_obj,
                   truck_util, saved_files>>
    /\ UNCHANGED <<monoVars, c4Vars, c2Vars, auxVars>>

\* step 5: extract_and_show_results
ExtractResults ==
    /\ pc = "extract"
    /\ LET r == extract_and_show_results(x_decision_variables, truck_list, order_list,
                                         permissible_pairs_with_values, status)
       IN /\ assigned_details' = r.assigned_orders_details
          /\ unassigned_obj' = r.unassigned_orders_obj
          /\ truck_util' = r.truck_utilization
    /\ pc' = "save_results"
    /\ UNCHANGED <<truck_list, order_list, permissible_pairs_with_values,
                   optimization_problem, x_decision_variables, status, saved_files>>
    /\ UNCHANGED <<monoVars, c4Vars, c2Vars, auxVars>>

\* step 6: the three result files, for a solved problem only
SaveResults ==
    /\ pc = "save_results"
    /\ saved_files' =
          IF status = LpStatusOptimal \/ status = LpStatusFeasible
          THEN saved_files \o <<"ergebnisse_zugewiesene_auftraege",
                                "ergebnisse_nicht_zugewiesene_auftraege",
                                "ergebnisse_lkw_auslastung">>
          ELSE saved_files
    /\ pc' = "done"
    /\ UNCHANGED <<truck_list, order_list, permissible_pairs_with_values,
                   optimization_problem, x_decision_variables, status,
                   assigned_details, unassigned_obj, truck_util>>
    /\ UNCHANGED <<monoVars, c4Vars, c2Vars, auxVars>>

DispoIdle ==
    /\ truck_list = <<>>
    /\ order_list = <<>>
    /\ pc = "idle"
    /\ permissible_pairs_with_values = None
    /\ optimization_problem = None
    /\ x_decision_variables = None
    /\ status = NoStatus
    /\ assigned_details = <<>>
    /\ unassigned_obj = <<>>
    /\ truck_util = None
    /\ saved_files = <<>>

MonoIdle ==
    /\ mono_pc = "idle"
    /\ priority_factors = None
    /\ mono_solutions = None

C4Idle ==
    /\ c4_pc = "idle"
    /\ c4_trucks = <<>>
    /\ c4_orders = <<>>
    /\ cost_matrix = None
    /\ c4_model = None
    /\ c4_variables = None
    /\ c4_model_status = NoStatus
    /\ c4_result = None
    /\ c4_analysis = None

C2Idle ==
    /\ c2_pc = "idle"
    /\ c2_program = "none"
    /\ c2_input_trucks = <<>>
    /\ c2_trucks = <<>>
    /\ c2_orders = <<>>
    /\ c2_strategy = 0
    /\ c2_sorted = <<>>
    /\ c2_index = 0
    /\ c2_available_orders = <<>>
    /\ c2_assignments = <<>>
    /\ c2_returned = None
    /\ c2_best = None
    /\ c2_analysis = None
    /\ c2_analysis_again = None

DetIdle ==
    /\ det_pc = "idle"
    /\ det_second = None

TravelIdle ==
    /\ tt_pc = "idle"
    /\ tt_distance = 0
    /\ tt_speed = 0
    /\ tt_result = None

CtorIdle ==
    /\ ctor_pc = "idle"
    /\ ctor_truck_args = <<>>
    /\ ctor_order_args = <<>>

OwIdle ==
    /\ ow_pc = "idle"
    /\ ow_a = None
    /\ ow_b = None
    /\ ow_result = FALSE
    /\ ow_reverse = FALSE

O4Idle ==
    /\ o4_pc = "idle"
    /\ o4_trucks = <<>>
    /\ o4_orders = <<>>
    /\ o4_x = None
    /\ o4_status = NoStatus
    /\ o4_report = None

TmsIdle ==
    /\ tms_pc = "idle"
    /\ tms_trucks = <<>>
    /\ tms_orders = <<>>
    /\ remaining_trucks = <<>>
    /\ remaining_orders = <<>>
    /\ tms_assignments = <<>>

ApiIdle ==
    /\ api_pc = "idle"
    /\ clock = 0
    /\ files = {}
    /\ api_results = None

TourIdle ==
    /\ tour_pc = "idle"
    /\ tour_truck = None
    /\ tour_order = None
    /\ tour_values = None

ExtIdle == OwIdle /\ O4Idle /\ TmsIdle /\ ApiIdle /\ TourIdle

AuxIdle == DetIdle /\ TravelIdle /\ CtorIdle /\ ExtIdle

\* the state after step 1 (data generation): unique ids LKW1.., AUF1..
Init ==
    /\ truck_list \in TruckLists
    /\ order_list \in OrderLists
    /\ pc = "save_raw"
    /\ permissible_pairs_with_values = None
    /\ optimization_problem = None
    /\ x_decision_variables = None
    /\ status = NoStatus
    /\ assigned_details = <<>>
    /\ unassigned_obj = <<>>
    /\ truck_util = None
    /\ saved_files = <<>>
    /\ MonoIdle
    /\ C4Idle
    /\ C2Idle
    /\ AuxIdle

Next ==
    \/ SaveRawData
    \/ DeterminePairs
    \/ CreateLpModel
    \/ SubmitModel
    \/ SolverReturns
    \/ ExtractResults
    \/ SaveResults

Spec == Init /\ [][Next]_vars

-----------------------------------------------------------------------------
(* Claims about main_dispo (specification Spec) *)

\* the (truck_id, order_id) pairs of the extracted assignments
AssignedPairs ==
    { <<assigned_details[i].lkw_id, assigned_details[i].auftrag_id>> :
        i \in 1..Len(assigned_details) }

\* extract_and_show_results has returned its three results
Extracted == truck_util # None

\* C1: in the extracted assignments of the Optimal strategy no order id
\* appears in more than one assignment and no truck id appears in more than
\* one assignment, whatever solution satisfying the model the solver returns.
C1_NoIdTwice ==
    Extracted =>
        \A i, j \in 1..Len(assigned_details) :
            i # j => /\ assigned_details[i].auftrag_id # assigned_details[j].auftrag_id
                     /\ assigned_details[i].lkw_id # assigned_details[j].lkw_id

\* two trucks of a fleet carry one order each
C1_Witness ==
    /\ pc = "done"
    /\ Extracted
    /\ Len(assigned_details) = 2
    /\ \E t \in 1..Len(truck_list) :
          Cardinality({ k \in DOMAIN permissible_pairs_with_values :
                          k[1] = truck_list[t].truck_id }) >= 2

\* C2: capacity invariant: for every extracted assignment (truck, order) the
\* order's weight_kg is at most the truck's capacity_kg.
C2_CapacityInvariant ==
    Extracted =>
        \A i \in 1..Len(assigned_details) :
            OrderById(order_list, assigned_details[i].auftrag_id).weight_kg
                <= TruckById(truck_list, assigned_details[i].lkw_id).capacity_kg

\* an order too heavy for one truck of the fleet is carried by another one
C2_Witness ==
    /\ pc = "done"
    /\ Extracted
    /\ \E i \in 1..Len(assigned_details) :
          \E t \in 1..Len(truck_list) :
              truck_list[t].capacity_kg < assigned_details[i].auftrag_gewicht_kg

\* C3: a pair (truck, order) is a key of the feasibility map if and only if
\* weight <= capacity, loadingStart <= windowLate - loadingDuration + 0.01 and
\* unloadingEnd <= availableUntil + 0.01, with
\* loadingStart = max(availableFrom + approachTime, windowEarly) and
\* unloadingEnd = loadingStart + loadingDuration + transportTime + unloadingDuration.
C3_LoadingStart(truck, order) ==
    Max2(truck.available_from_h
            + calculate_travel_time_h(calculate_distance(truck.location, order.loading_site)),
         order.loading_window_early_h)

C3_UnloadingEnd(truck, order) ==
    C3_LoadingStart(truck, order) + order.loading_duration_h
    + calculate_travel_time_h(calculate_distance(order.loading_site, order.unloading_site))
    + order.unloading_duration_h

C3_FeasibleIffThreeChecks ==
    permissible_pairs_with_values # None =>
        \A t \in 1..Len(truck_list), o \in 1..Len(order_list) :
            LET truck == truck_list[t]
                order == order_list[o]
            IN (<<truck.truck_id, order.order_id>> \in DOMAIN permissible_pairs_with_values)
               <=> /\ order.weight_kg <= truck.capacity_kg
                   /\ C3_LoadingStart(truck, order)
                        <= order.loading_window_late_h - order.loading_duration_h + Epsilon
                   /\ C3_UnloadingEnd(truck, order) <= truck.available_until_h + Epsilon

\* a map with a pair kept only thanks to the tolerance of the loading check,
\* for a fleet and order book that also have a rejected pair
C3_Witness ==
    /\ permissible_pairs_with_values # None
    /\ \E t \in 1..Len(truck_list), o \in 1..Len(order_list) :
          /\ <<truck_list[t].truck_id, order_list[o].order_id>>
                \in DOMAIN permissible_pairs_with_values
          /\ C3_LoadingStart(truck_list[t], order_list[o])
                > order_list[o].loading_window_late_h - order_list[o].loading_duration_h
    /\ \E t \in 1..Len(truck_list), o \in 1..Len(order_list) :
          <<truck_list[t].truck_id, order_list[o].order_id>>
                \notin DOMAIN permissible_pairs_with_values

\* the sets of feasible pairs that use each truck and each order at most once
C5_Matchings ==
    { M \in SUBSET (DOMAIN permissible_pairs_with_values) :
        \A a, b \in M : a # b => (a[1] # b[1] /\ a[2] # b[2]) }

\* total utility of a set of feasible pairs, in units of 0.01
C5_Utility(M) ==
    SumOver(M, [k \in M |->
        100 * PRIORITY_WEIGHT_FACTOR * permissible_pairs_with_values[k].prio_gewicht
        - DISTANCE_COST_FACTOR
            * permissible_pairs_with_values[k].distanz_gesamt_fuer_auftrag])

\* the free feasible pair of least cost (largest utility) among candidates;
\* the first of the loop order on equal utility
C5_BestOf(candidates) ==
    LET seq == SelectSeqBy(PairsInLoopOrder(truck_list, order_list), candidates)
        best == MaxOf({ C5_Utility({k}) : k \in candidates })
    IN seq[CHOOSE i \in 1..Len(seq) :
              /\ C5_Utility({seq[i]}) = best
              /\ \A j \in 1..(i - 1) : C5_Utility({seq[j]}) # best]

RECURSIVE C5_GreedyPerOrder(_, _)
\* greedy: order by order, the least-cost feasible truck that is still free
C5_GreedyPerOrder(j, chosen) ==
    IF j > Len(order_list) THEN chosen
    ELSE LET candidates ==
                { k \in DOMAIN permissible_pairs_with_values :
                    /\ k[2] = order_list[j].order_id
                    /\ \A c \in chosen : c[1] # k[1] }
         IN C5_GreedyPerOrder(j + 1,
                IF candidates = {} THEN chosen
                ELSE chosen \cup {C5_BestOf(candidates)})

RECURSIVE C5_GreedyPerTruck(_, _)
\* greedy: truck by truck, the least-cost feasible order that is still free
C5_GreedyPerTruck(i, chosen) ==
    IF i > Len(truck_list) THEN chosen
    ELSE LET candidates ==
                { k \in DOMAIN permissible_pairs_with_values :
                    /\ k[1] = truck_list[i].truck_id
                    /\ \A c \in chosen : c[2] # k[2] }
         IN C5_GreedyPerTruck(i + 1,
                IF candidates = {} THEN chosen
                ELSE chosen \cup {C5_BestOf(candidates)})

C5_Maximal(M) == \A N \in C5_Matchings : C5_Utility(M) >= C5_Utility(N)

C5_BeatsGreedy(G) ==
    /\ C5_Utility(AssignedPairs) >= C5_Utility(G)
    /\ ~C5_Maximal(G) => C5_Utility(AssignedPairs) > C5_Utility(G)

\* C5 as stated: for every input the extracted assignment set has a total
\* utility at least that of every set of feasible pairs using each truck and
\* each order at most once (hence of every greedy set, strictly when the
\* greedy set is not utility-maximal).
C5_AlwaysMaximal ==
    Extracted =>
        /\ C5_Maximal(AssignedPairs)
        /\ C5_BeatsGreedy(C5_GreedyPerOrder(1, {}))
        /\ C5_BeatsGreedy(C5_GreedyPerTruck(1, {}))

\* C5 amended: the same, whenever the solver reports the status Optimal.
C5_OptimalStatusMaximal ==
    (Extracted /\ status = LpStatusOptimal) =>
        /\ C5_Maximal(AssignedPairs)
        /\ C5_BeatsGreedy(C5_GreedyPerOrder(1, {}))
        /\ C5_BeatsGreedy(C5_GreedyPerTruck(1, {}))

\* an Optimal run whose assignment set has strictly more utility than the
\* per-order greedy set over the same feasible pairs
C5_Witness ==
    /\ Extracted
    /\ status = LpStatusOptimal
    /\ C5_Utility(AssignedPairs) > C5_Utility(C5_GreedyPerOrder(1, {}))

\* C7: when the feasibility map is empty the run still ends with a reported
\* outcome (status Infeasible, or Optimal with zero assignments) whose
\* assignment set is empty and whose unassigned list is the full order list.
C7_EmptyMapReported ==
    (pc = "done" /\ DOMAIN permissible_pairs_with_values = {}) =>
        /\ status \in {LpStatusInfeasible, LpStatusOptimal}
        /\ Extracted
        /\ assigned_details = <<>>
        /\ Len(unassigned_obj) = Len(order_list)
        /\ Range(unassigned_obj) = Range(order_list)

\* C8: an order heavier than the capacity of every truck (of a fleet that has
\* trucks) is part of no assignment and is in the unassigned list the run
\* reports.
C8_TooHeavyOrderUnassigned ==
    (pc = "done" /\ truck_list # <<>>) =>
        \A o \in 1..Len(order_list) :
            (\A t \in 1..Len(truck_list) :
                order_list[o].weight_kg > truck_list[t].capacity_kg)
            => /\ \A i \in 1..Len(assigned_details) :
                     assigned_details[i].auftrag_id # order_list[o].order_id
               /\ Extracted
               /\ order_list[o] \in Range(unassigned_obj)

\* the status of the run in the words of the state machine
C10_Terminal == {"Optimal", "Feasible", "Infeasible", "Error"}

C10_RunState ==
    IF status # NoStatus
    THEN CASE status = LpStatusOptimal -> "Optimal"
           [] status = LpStatusFeasible -> "Feasible"
           [] status = LpStatusInfeasible -> "Infeasible"
           [] OTHER -> "Error"
    ELSE IF pc = "solving" THEN "Solving" ELSE "Unsolved"

C10_Step ==
    /\ C10_RunState = "Unsolved" => C10_RunState' \in {"Unsolved", "Solving"}
    /\ C10_RunState = "Solving" => C10_RunState' \in {"Solving"} \cup C10_Terminal
    /\ C10_RunState \in C10_Terminal => (C10_RunState' = C10_RunState /\ status' = status)
    /\ (C10_RunState # "Solving" /\ C10_RunState' = "Solving")
          => /\ optimization_problem # None
             /\ optimization_problem' = optimization_problem
             /\ x_decision_variables' = x_decision_variables
    /\ assigned_details' # assigned_details
          => (status = LpStatusOptimal \/ status = LpStatusFeasible)

C10_Results ==
    Extracted =>
        /\ C10_RunState \in C10_Terminal
        /\ (status = LpStatusOptimal \/ status = LpStatusFeasible)
              => AssignedPairs = { k \in DOMAIN x_decision_variables :
                                     x_decision_variables[k] = 1 }
        /\ ~(status = LpStatusOptimal \/ status = LpStatusFeasible)
              => /\ assigned_details = <<>>
                 /\ Len(unassigned_obj) = Len(order_list)
                 /\ Range(unassigned_obj) = Range(order_list)

\* C10: a run moves Unsolved -> Solving -> one of Optimal, Feasible,
\* Infeasible, Error; Solving is entered only by submitting the built model, a
\* terminal status is never left, and assignments are extracted from the
\* solver's variables only in the terminal statuses Optimal and Feasible (in
\* every other terminal status no order is assigned and all are unassigned).
C10_RunStateMachine == [](C10_Results) /\ [][C10_Step]_vars

\* a run that ended in Error with a non-empty order book
C10_Witness ==
    /\ pc = "done"
    /\ Extracted
    /\ C10_RunState = "Error"
    /\ order_list # <<>>
    /\ Len(unassigned_obj) = Len(order_list)

-----------------------------------------------------------------------------
(* Two optimal solutions of the dispo.py model over one feasibility map, for *)
(* two values P1 < P2 of the priority reward factor (PRIORITY_WEIGHT_FACTOR) *)
(* and the distance cost factor of the code (specification SpecMono)         *)

PriorityFactorChoices == {50, 200, PRIORITY_WEIGHT_FACTOR}

MonoDeterminePairs ==
    /\ mono_pc = "pairs"
    /\ permissible_pairs_with_values' =
          determine_permissible_pairs_and_values(truck_list, order_list)
    /\ mono_pc' = "first"
    /\ UNCHANGED <<truck_list, order_list, pc, optimization_problem,
                   x_decision_variables, status, assigned_details, unassigned_obj,
                   truck_util, saved_files, priority_factors, mono_solutions>>
    /\ UNCHANGED <<c4Vars, c2Vars, auxVars>>

\* an optimal solution of the model built with the factor P1
MonoSolveFirst ==
    /\ mono_pc = "first"
    /\ LET m == create_lp_model_with(truck_list, order_list,
                                     permissible_pairs_with_values,
                                     priority_factors[1], DISTANCE_COST_FACTOR)
       IN \E x \in OptimalSolutions(m.prob, m.x_vars) :
              mono_solutions' = <<x>>
    /\ mono_pc' = "second"
    /\ UNCHANGED <<dispoVars, priority_factors, c2Vars, auxVars>>
    /\ UNCHANGED c4Vars

\* an optimal solution of the model built with the factor P2
MonoSolveSecond ==
    /\ mono_pc = "second"
    /\ LET m == create_lp_model_with(truck_list, order_list,
                                     permissible_pairs_with_values,
                                     priority_factors[2], DISTANCE_COST_FACTOR)
       IN \E x \in OptimalSolutions(m.prob, m.x_vars) :
              mono_solutions' = Append(mono_solutions, x)
    /\ mono_pc' = "done"
    /\ UNCHANGED <<dispoVars, priority_factors, c2Vars, auxVars>>
    /\ UNCHANGED c4Vars

InitMono ==
    /\ truck_list \in TruckLists
    /\ order_list \in OrderLists
    /\ pc = "idle"
    /\ permissible_pairs_with_values = None
    /\ optimization_problem = None
    /\ x_decision_variables = None
    /\ status = NoStatus
    /\ assigned_details = <<>>
    /\ unassigned_obj = <<>>
    /\ truck_util = None
    /\ saved_files = <<>>
    /\ mono_pc = "pairs"
    /\ priority_factors \in { f \in PriorityFactorChoices \X PriorityFactorChoices :
                                f[1] < f[2] }
    /\ mono_solutions = <<>>
    /\ C4Idle
    /\ C2Idle
    /\ AuxIdle

NextMono == MonoDeterminePairs \/ MonoSolveFirst \/ MonoSolveSecond

SpecMono == InitMono /\ [][NextMono]_vars

\* the number of high-priority orders (priority 1) a solution assigns
C6_HighCount(x) ==
    Cardinality({ k \in DOMAIN x :
                    x[k] = 1 /\ permissible_pairs_with_values[k].prio_original = 1 })

\* C6: for a fixed feasibility map and P1 < P2 with the distance cost factor
\* held fixed, an optimal solution for P2 assigns at least as many
\* high-priority orders as an optimal solution for P1.
C6_Monotone ==
    mono_pc = "done" =>
        C6_HighCount(mono_solutions[2]) >= C6_HighCount(mono_solutions[1])

\* the larger factor wins a high-priority order that the smaller one leaves out
C6_Witness ==
    /\ mono_pc = "done"
    /\ C6_HighCount(mono_solutions[2]) > C6_HighCount(mono_solutions[1])

-----------------------------------------------------------------------------
(* _archive/pulp-1-c4.py: constants, entities, helper functions.            *)
(* Distances are in units of 0.01 km (the code keeps the unrounded float),  *)
(* times in ticks of 1/C4TicksPerHour hour so that distance / 45 km/h is a  *)
(* whole number of ticks, costs in cents (rounded down).                    *)

C4_AVG_SPEED_KMH == 45
C4TicksPerHour == 100 * C4_AVG_SPEED_KMH
C4Hours(h, hundredths) == h * C4TicksPerHour + hundredths * C4_AVG_SPEED_KMH

\* BIG_M = 999999.0 Euro, in cents
BIG_M == 99999900

\* PRIORITY_COST_MULTIPLIER, times 10
PRIORITY_COST_MULTIPLIER(priority) ==
    CASE priority = "URGENT" -> 5
      [] priority = "HIGH" -> 7
      [] priority = "NORMAL" -> 10
      [] priority = "LOW" -> 13
      [] OTHER -> 10

TimeWindow(earliest_start, latest_end) ==
    [earliest_start |-> earliest_start, latest_end |-> latest_end]

duration_hours(window) == window.latest_end - window.earliest_start

\* an overlap test with strict comparisons: windows that touch overlap
overlaps_with_Closed(self, other) ==
    ~(self.latest_end < other.earliest_start \/ other.latest_end < self.earliest_start)

\* TimeWindow.overlaps_with
overlaps_with(self, other) ==
    ~(self.latest_end <= other.earliest_start \/ other.latest_end <= self.earliest_start)

C4Truck(truck_id, lat, capacity, current_load, availability) ==
    [truck_id |-> <<"LKW", truck_id>>, position |-> <<lat, 13>>,
     capacity |-> capacity, current_load |-> current_load,
     availability |-> availability]

available_capacity(truck) == truck.capacity - truck.current_load

C4Order(order_id, pickup_lat, delivery_lat, volume, priority, time_window, service_time) ==
    [order_id |-> <<"AUF", order_id>>,
     pickup_position |-> <<pickup_lat, 13>>,
     delivery_position |-> <<delivery_lat, 13>>,
     volume |-> volume, priority |-> priority,
     time_window |-> time_window, service_time |-> service_time]

\* haversine distance on one meridian, at least 0.1 km
calculate_distance_km(pos1, pos2) ==
    LET dlat == Abs(pos1[1] - pos2[1])
        distance == CASE dlat = 0 -> 0
                      [] dlat = 1 -> 11119
                      [] dlat = 2 -> 22239
                      [] dlat = 3 -> 33358
                      [] dlat = 4 -> 44478
    IN Max2(10, distance)

\* estimate_travel_time_hours(distance_km, avg_speed_kmh): 999.0 h for a speed
\* that is not positive, otherwise at least 0.01 h
estimate_travel_time_hours_at(distance_km, avg_speed_kmh) ==
    IF avg_speed_kmh <= 0 \/ distance_km < 0 THEN 999 * C4TicksPerHour
    ELSE Max2(C4TicksPerHour \div 100,
              (distance_km * C4TicksPerHour) \div (100 * avg_speed_kmh))

\* estimate_travel_time_hours(distance_km) with the default speed of 45 km/h
estimate_travel_time_hours(distance_km) ==
    estimate_travel_time_hours_at(distance_km, C4_AVG_SPEED_KMH)

\* total cost of calculate_assignment_cost in cents: 1.5 Euro per km times
\* the priority multiplier, plus 50 Euro per hour of travel
calculate_assignment_cost(truck, order) ==
    LET distance_to_pickup == calculate_distance_km(truck.position, order.pickup_position)
        delivery_distance ==
            calculate_distance_km(order.pickup_position, order.delivery_position)
        total_distance == distance_to_pickup + delivery_distance
        travel_time == estimate_travel_time_hours(total_distance)
        total_cost ==
            (27 * PRIORITY_COST_MULTIPLIER(order.priority) * total_distance
             + 200 * travel_time) \div 180
    IN IF total_cost < 0 THEN BIG_M ELSE total_cost

\* TruckOrderOptimizer._is_feasible_assignment
is_feasible_assignment(truck, order) ==
    IF order.volume > available_capacity(truck) THEN FALSE
    ELSE IF ~overlaps_with(truck.availability, order.time_window) THEN FALSE
    ELSE LET distance == calculate_distance_km(truck.position, order.pickup_position)
             delivery_distance ==
                 calculate_distance_km(order.pickup_position, order.delivery_position)
             total_travel_time == estimate_travel_time_hours(distance + delivery_distance)
         IN ~(total_travel_time + order.service_time > duration_hours(truck.availability))

\* TruckOrderOptimizer._calculate_cost_matrix: a cost for every pair
calculate_cost_matrix(trucks, orders) ==
    [key \in { <<trucks[i].truck_id, orders[j].order_id>> :
                 <<i, j>> \in (1..Len(trucks)) \X (1..Len(orders)) } |->
        LET truck == TruckById(trucks, key[1])
            order == OrderById(orders, key[2])
        IN IF ~is_feasible_assignment(truck, order) THEN BIG_M
           ELSE calculate_assignment_cost(truck, order)]

\* the model with the sense LpMaximize
create_optimization_model_Maximize(trucks, orders, costs) ==
    LET keys == { <<trucks[i].truck_id, orders[j].order_id>> :
                    <<i, j>> \in (1..Len(trucks)) \X (1..Len(orders)) }
        total_cost == [key \in keys |-> IF key \in DOMAIN costs THEN costs[key] ELSE BIG_M]
        order_assignment ==
            { Constraint(<<"OrderAssignment", orders[j].order_id>>,
                         [key \in { k \in keys : k[2] = orders[j].order_id } |-> 1],
                         "<=", 1) : j \in 1..Len(orders) }
        capacity_constraint ==
            { Constraint(<<"CapacityConstraint", trucks[i].truck_id>>,
                         [key \in { k \in keys : k[1] = trucks[i].truck_id } |->
                             OrderById(orders, key[2]).volume],
                         "<=", available_capacity(trucks[i])) : i \in 1..Len(trucks) }
        infeasible ==
            { Constraint(<<"Infeasible", key[1], key[2]>>,
                         [k \in {key} |-> 1], "==", 0) :
                key \in { k \in keys : k \in DOMAIN costs /\ costs[k] = BIG_M } }
    IN [model |-> [sense |-> "LpMaximize",
                   objective |-> total_cost,
                   constraints |-> order_assignment \cup capacity_constraint
                                     \cup infeasible],
        variables |-> keys]

\* TruckOrderOptimizer._create_optimization_model
create_optimization_model(trucks, orders, costs) ==
    LET keys == { <<trucks[i].truck_id, orders[j].order_id>> :
                    <<i, j>> \in (1..Len(trucks)) \X (1..Len(orders)) }
        total_cost == [key \in keys |-> IF key \in DOMAIN costs THEN costs[key] ELSE BIG_M]
        order_assignment ==
            { Constraint(<<"OrderAssignment", orders[j].order_id>>,
                         [key \in { k \in keys : k[2] = orders[j].order_id } |-> 1],
                         "<=", 1) : j \in 1..Len(orders) }
        capacity_constraint ==
            { Constraint(<<"CapacityConstraint", trucks[i].truck_id>>,
                         [key \in { k \in keys : k[1] = trucks[i].truck_id } |->
                             OrderById(orders, key[2]).volume],
                         "<=", available_capacity(trucks[i])) : i \in 1..Len(trucks) }
        infeasible ==
            { Constraint(<<"Infeasible", key[1], key[2]>>,
                         [k \in {key} |-> 1], "==", 0) :
                key \in { k \in keys : k \in DOMAIN costs /\ costs[k] = BIG_M } }
    IN [model |-> [sense |-> "LpMinimize",
                   objective |-> total_cost,
                   constraints |-> order_assignment \cup capacity_constraint
                                     \cup infeasible],
        variables |-> keys]

\* the OptimizationResult built at the end of TruckOrderOptimizer.solve
\* (solve_time is not modelled)
SolveResult(trucks, orders, model, variables, model_status) ==
    LET solved == model_status = LpStatusOptimal \/ model_status = LpStatusFeasible
        assignments ==
            IF solved
            THEN SelectSeqBy(PairsInLoopOrder(trucks, orders),
                             { k \in DOMAIN variables : variables[k] = 1 })
            ELSE <<>>
        assigned_order_ids == { assignments[i][2] : i \in 1..Len(assignments) }
        all_order_ids == [j \in 1..Len(orders) |-> orders[j].order_id]
        has_value == \A k \in DOMAIN variables : variables[k] # NoValue
    IN [assignments |-> assignments,
        total_cost |-> IF solved THEN ObjectiveValue(model, variables) ELSE Infinity,
        unassigned_orders |->
            IF solved
            THEN SelectSeqBy(all_order_ids, Range(all_order_ids) \ assigned_order_ids)
            ELSE all_order_ids,
        status |-> IF solved
                   THEN (IF model_status = LpStatusOptimal THEN "Optimal" ELSE "Feasible")
                   ELSE "Infeasible",
        objective_value |->
            IF DOMAIN model.objective = {} THEN 0
            ELSE IF has_value THEN ObjectiveValue(model, variables) ELSE NoValue]

\* OptimizationResult.assignment_rate, in units of 0.1 percent
assignment_rate(result) ==
    LET total_orders == Len(result.assignments) + Len(result.unassigned_orders)
    IN IF total_orders > 0 THEN (Len(result.assignments) * 1000) \div total_orders ELSE 0

\* analyze_optimization_results: the detail metrics are added to the dict
\* only "if result.assignments"; utilization is in units of 0.1 percent, and
\* solve_time is not modelled
analyze_optimization_results(result, trucks, orders) ==
    LET n == Len(result.assignments)
        truck_of(i) == TruckById(trucks, result.assignments[i][1])
        order_of(i) == OrderById(orders, result.assignments[i][2])
        distances ==
            [i \in 1..n |->
                calculate_distance_km(truck_of(i).position, order_of(i).pickup_position)
                + calculate_distance_km(order_of(i).pickup_position,
                                        order_of(i).delivery_position)]
        costs == [i \in 1..n |-> calculate_assignment_cost(truck_of(i), order_of(i))]
        volumes == [i \in 1..n |-> order_of(i).volume]
        utilization(t) ==
            LET assigned_orders == { i \in 1..n : result.assignments[i][1] = trucks[t].truck_id }
            IN IF assigned_orders # {}
               THEN ((trucks[t].current_load + SumOver(assigned_orders, volumes)) * 1000)
                        \div trucks[t].capacity
               ELSE (trucks[t].current_load * 1000) \div trucks[t].capacity
        analysis ==
            [total_orders |-> Len(orders),
             assigned_orders |-> n,
             unassigned_orders |-> Len(result.unassigned_orders),
             assignment_rate |-> assignment_rate(result),
             total_cost |-> result.total_cost,
             status |-> result.status]
    IN IF n > 0
       THEN analysis @@
            [avg_distance_km |-> SumOver(1..n, distances) \div n,
             total_distance_km |-> SumOver(1..n, distances),
             avg_cost_per_assignment |-> SumOver(1..n, costs) \div n,
             assigned_volume_tons |-> SumOver(1..n, volumes),
             total_volume_tons |->
                 SumOver(1..Len(orders), [j \in 1..Len(orders) |-> orders[j].volume]),
             avg_truck_utilization |->
                 SumOver(1..Len(trucks), [t \in 1..Len(trucks) |-> utilization(t)])
                     \div Len(trucks)]
       ELSE analysis

\* the fleets and order books TruckOrderOptimizer is tried on
C4TruckProfiles(i) ==
    { C4Truck(i, 52, 20, 5, TimeWindow(C4Hours(6, 0), C4Hours(18, 0))),
      C4Truck(i, 50, 10, 0, TimeWindow(C4Hours(7, 0), C4Hours(9, 0))),
      C4Truck(i, 51, 30, 0, TimeWindow(C4Hours(6, 0), C4Hours(20, 0))) }

C4OrderProfiles(j) ==
    { C4Order(j, 52, 51, 5, "URGENT", TimeWindow(C4Hours(8, 0), C4Hours(12, 0)), C4Hours(0, 50)),
      C4Order(j, 50, 52, 12, "NORMAL", TimeWindow(C4Hours(8, 0), C4Hours(16, 0)), C4Hours(0, 50)),
      C4Order(j, 51, 51, 5, "LOW", TimeWindow(C4Hours(19, 0), C4Hours(20, 0)), C4Hours(0, 50)),
      C4Order(j, 50, 50, 8, "HIGH", TimeWindow(C4Hours(8, 0), C4Hours(10, 0)), C4Hours(0, 50)) }

C4TruckLists ==
    UNION { { s \in [1..n -> UNION {C4TruckProfiles(i) : i \in 1..n}] :
                \A i \in 1..n : s[i] \in C4TruckProfiles(i) } : n \in 0..NumTrucks }

C4OrderLists ==
    UNION { { s \in [1..n -> UNION {C4OrderProfiles(j) : j \in 1..n}] :
                \A j \in 1..n : s[j] \in C4OrderProfiles(j) } : n \in 0..NumOrders }

-----------------------------------------------------------------------------
(* _archive/pulp-1-c4.py: TruckOrderOptimizer.solve, step by step *)

\* self._calculate_cost_matrix()
C4CalculateCostMatrix ==
    /\ c4_pc = "cost_matrix"
    /\ cost_matrix' = calculate_cost_matrix(c4_trucks, c4_orders)
    /\ c4_pc' = "create_model"
    /\ UNCHANGED <<c4_trucks, c4_orders, c4_model, c4_variables, c4_model_status,
                   c4_result, c4_analysis>>
    /\ UNCHANGED <<dispoVars, monoVars, c2Vars, auxVars>>

\* self._create_optimization_model()
C4CreateOptimizationModel ==
    /\ c4_pc = "create_model"
    /\ LET m == create_optimization_model(c4_trucks, c4_orders, cost_matrix)
       IN /\ c4_model' = m.model
          /\ c4_variables' = [k \in m.variables |-> NoValue]
    /\ c4_pc' = "solve"
    /\ UNCHANGED <<c4_trucks, c4_orders, cost_matrix, c4_model_status, c4_result,
                   c4_analysis>>
    /\ UNCHANGED <<dispoVars, monoVars, c2Vars, auxVars>>

\* self.model.solve(solver)
C4ModelSolve ==
    /\ c4_pc = "solve"
    /\ \E outcome \in SolverOutcomes(c4_model, DOMAIN c4_variables) :
          /\ c4_model_status' = outcome.status
          /\ c4_variables' = outcome.values
    /\ c4_pc' = "result"
    /\ UNCHANGED <<c4_trucks, c4_orders, cost_matrix, c4_model, c4_result, c4_analysis>>
    /\ UNCHANGED <<dispoVars, monoVars, c2Vars, auxVars>>

\* the extraction of the results and the return of solve
C4ReturnResult ==
    /\ c4_pc = "result"
    /\ c4_result' = SolveResult(c4_trucks, c4_orders, c4_model, c4_variables,
                                c4_model_status)
    /\ c4_pc' = "done"
    /\ UNCHANGED <<c4_trucks, c4_orders, cost_matrix, c4_model, c4_variables,
                   c4_model_status, c4_analysis>>
    /\ UNCHANGED <<dispoVars, monoVars, c2Vars, auxVars>>

\* main: analysis = analyze_optimization_results(result, trucks, orders)
C4Analyze ==
    /\ c4_pc = "done"
    /\ c4_analysis' = analyze_optimization_results(c4_result, c4_trucks, c4_orders)
    /\ c4_pc' = "analyzed"
    /\ UNCHANGED <<c4_trucks, c4_orders, cost_matrix, c4_model, c4_variables,
                   c4_model_status, c4_result>>
    /\ UNCHANGED <<dispoVars, monoVars, c2Vars, auxVars>>

InitC4 ==
    /\ DispoIdle
    /\ MonoIdle
    /\ c4_pc = "cost_matrix"
    /\ c4_trucks \in C4TruckLists
    /\ c4_orders \in C4OrderLists
    /\ cost_matrix = None
    /\ c4_model = None
    /\ c4_variables = None
    /\ c4_model_status = NoStatus
    /\ c4_result = None
    /\ c4_analysis = None
    /\ C2Idle
    /\ AuxIdle

NextC4 ==
    \/ C4CalculateCostMatrix
    \/ C4CreateOptimizationModel
    \/ C4ModelSolve
    \/ C4ReturnResult
    \/ C4Analyze

SpecC4 == InitC4 /\ [][NextC4]_vars

-----------------------------------------------------------------------------
(* Claims about the variable sets and about solver failures                  *)
(* (specifications Spec and SpecC4)                                          *)

\* the pairs pulp-1-c4 found feasible: the keys whose cost is not BIG_M
C4_FeasibleKeys == { k \in DOMAIN cost_matrix : cost_matrix[k] # BIG_M }

\* C4: every decision variable of an Optimal model is a feasible pair: the
\* variable set is the key set of the feasibility map, an infeasible pair has
\* no variable (it is not created and then penalised or pinned), and every
\* extracted assignment is a key of the feasibility map.
C4_VariablesAreFeasiblePairs ==
    /\ pc \in {"solve", "solving", "extract", "save_results"}
          => DOMAIN x_decision_variables = DOMAIN permissible_pairs_with_values
    /\ Extracted => AssignedPairs \subseteq DOMAIN permissible_pairs_with_values
    /\ c4_pc \in {"solve", "result", "done"}
          => DOMAIN c4_variables = C4_FeasibleKeys
    /\ c4_pc = "done" => Range(c4_result.assignments) \subseteq C4_FeasibleKeys

\* the solver statuses that are a failure of the solver
C9_FailureStatuses == {LpStatusNotSolved, LpStatusUndefined, LpStatusUnbounded}

\* C9: a solver failure is never conflated with infeasibility or with an empty
\* result: for a status that is neither Optimal, Feasible nor Infeasible the
\* outcome returned by TruckOrderOptimizer.solve and by
\* extract_and_show_results differs from the outcome for the status
\* Infeasible and from the outcome of a solved run with zero assignments.
C9_FailureSurfaced ==
    /\ (c4_pc = "done" /\ c4_model_status \in C9_FailureStatuses)
          => /\ c4_result # SolveResult(c4_trucks, c4_orders, c4_model,
                                        [k \in DOMAIN c4_variables |-> NoValue],
                                        LpStatusInfeasible)
             /\ c4_result # SolveResult(c4_trucks, c4_orders, c4_model,
                                        [k \in DOMAIN c4_variables |-> 0],
                                        LpStatusOptimal)
    /\ (Extracted /\ status \in C9_FailureStatuses)
          => LET returned == [assigned_orders_details |-> assigned_details,
                              unassigned_orders_obj |-> unassigned_obj,
                              truck_utilization |-> truck_util]
                 Triple(r) == [assigned_orders_details |-> r.assigned_orders_details,
                               unassigned_orders_obj |-> r.unassigned_orders_obj,
                               truck_utilization |-> r.truck_utilization]
             IN /\ returned # Triple(extract_and_show_results(
                                  [k \in DOMAIN x_decision_variables |-> NoValue],
                                  truck_list, order_list,
                                  permissible_pairs_with_values, LpStatusInfeasible))
                /\ returned # Triple(extract_and_show_results(
                                  [k \in DOMAIN x_decision_variables |-> 0],
                                  truck_list, order_list,
                                  permissible_pairs_with_values, LpStatusOptimal))

-----------------------------------------------------------------------------
(* _archive/claude-2.py and _archive/truck_assignment.py: numbers           *)
(*                                                                           *)
(* capacity, current_load and volume are Python floats, and the load        *)
(* arithmetic of the strategies rounds.  Such a quantity x is coded by      *)
(*   1000 * n + e,  n = round(10 * x),  e = (x - float(n / 10)) / 2^-56,    *)
(* which orders the codes as the floats are ordered (1.7 is 17000, and      *)
(* 0.6 + 1.1 = 1.7000000000000002 is 17016).  FloatAddTable and             *)
(* FloatSubTable hold the IEEE-754 double results of current_load + volume  *)
(* and capacity - current_load for every load that the trucks of            *)
(* C2TruckProfiles can reach with the volumes of C2OrderProfiles.           *)
(* Scores are in units of 0.0001, distances in 0.01 km, durations in ticks  *)
(* of 1/C2TicksPerHour hour, costs in 0.001 Euro; the statistics of         *)
(* analyze_assignments are computed on the quantities rounded to 0.1.       *)

FloatAddTable ==
    <<0, 10000>> :> 10000
    @@ <<0, 11000>> :> 11000
    @@ <<6000, 10000>> :> 16000
    @@ <<6000, 11000>> :> 17016
    @@ <<10000, 10000>> :> 20000
    @@ <<10000, 11000>> :> 21000
    @@ <<11000, 10000>> :> 21000
    @@ <<11000, 11000>> :> 22000
    @@ <<12000, 10000>> :> 22000
    @@ <<12000, 11000>> :> 23000
    @@ <<20000, 10000>> :> 30000
    @@ <<20000, 11000>> :> 31000
    @@ <<21000, 10000>> :> 31000
    @@ <<21000, 11000>> :> 32000
    @@ <<22000, 10000>> :> 32000
    @@ <<22000, 11000>> :> 33032
    @@ <<30000, 10000>> :> 40000

FloatSubTable ==
    <<17000, 6000>> :> 11000
    @@ <<17000, 16000>> :> 990
    @@ <<17000, 17016>> :> (0 - 16)
    @@ <<25000, 12000>> :> 13000
    @@ <<25000, 22000>> :> 2988
    @@ <<25000, 23000>> :> 2012
    @@ <<40000, 0>> :> 40000
    @@ <<40000, 10000>> :> 30000
    @@ <<40000, 11000>> :> 29000
    @@ <<40000, 20000>> :> 20000
    @@ <<40000, 21000>> :> 19000
    @@ <<40000, 22000>> :> 17984
    @@ <<40000, 30000>> :> 10000
    @@ <<40000, 31000>> :> 8992
    @@ <<40000, 32000>> :> 7984
    @@ <<40000, 33032>> :> 6984
    @@ <<40000, 40000>> :> 0

\* truck.current_load += volume
FloatAdd(a, b) == FloatAddTable[<<a, b>>]

\* self.capacity - self.current_load
FloatSub(a, b) == FloatSubTable[<<a, b>>]

\* the quantity rounded to 0.1
Tenths(x) == (x + 500) \div 1000

C2_AVG_SPEED_KMH == 50

C2TicksPerHour == 100 * C2_AVG_SPEED_KMH

\* raise ValueError(...)
ValueError == [error |-> "ValueError"]

-----------------------------------------------------------------------------
(* _archive/claude-2.py: data classes and helper functions *)

\* Truck(...) with __post_init__; cost_per_km keeps its default 1.2
C2Truck(truck_id, lat, capacity, current_load) ==
    IF capacity <= 0 THEN ValueError
    ELSE IF current_load < 0 THEN ValueError
    ELSE IF current_load > capacity THEN ValueError
    ELSE [truck_id |-> <<"LKW", truck_id>>, lat |-> lat, capacity |-> capacity,
          current_load |-> current_load, cost_per_km |-> 12]

\* Order(...) with __post_init__; assigned_truck keeps its default None
C2Order(order_id, pickup_lat, delivery_lat, volume, priority, deadline_hours) ==
    IF volume <= 0 THEN ValueError
    ELSE IF deadline_hours <= 0 THEN ValueError
    ELSE [order_id |-> <<"AUF", order_id>>, pickup_lat |-> pickup_lat,
          delivery_lat |-> delivery_lat, volume |-> volume, priority |-> priority,
          deadline_hours |-> deadline_hours, assigned_truck |-> None]

\* Truck.available_capacity
C2_available_capacity(truck) == FloatSub(truck.capacity, truck.current_load)

\* Truck.utilization_percent, in units of 0.1 percent
utilization_percent(truck) ==
    IF truck.capacity > 0
    THEN (Tenths(truck.current_load) * 1000) \div Tenths(truck.capacity)
    ELSE 0

\* Truck.can_handle_order
can_handle_order(truck, order) == order.volume <= C2_available_capacity(truck)

\* Order.priority_score, times PRIORITY_WEIGHT = 0.8
priority_score(order) ==
    CASE order.priority = "urgent" -> 800
      [] order.priority = "high"   -> 2400
      [] order.priority = "normal" -> 8000
      [] order.priority = "low"    -> 16000
      [] OTHER -> 8000

\* Order.is_assigned
is_assigned(order) == order.assigned_truck # None

\* haversine distance of two points of one meridian, in 0.01 km
C2_calculate_distance(lat1, lat2) == calculate_distance(<<lat1, 13>>, <<lat2, 13>>)

\* estimate_travel_time: 0 for a speed that is not positive
estimate_travel_time(distance_km, avg_speed_kmh) ==
    IF avg_speed_kmh > 0
    THEN (distance_km * C2TicksPerHour) \div (100 * avg_speed_kmh)
    ELSE 0

\* calculate_assignment_score: (total_score, details)
calculate_assignment_score(truck, order) ==
    LET distance == C2_calculate_distance(truck.lat, order.pickup_lat)
        distance_score == distance * 100
        capacity_score ==
            (6000 * (Tenths(truck.capacity) - Tenths(order.volume)))
                \div Tenths(truck.capacity)
        travel_time == estimate_travel_time(distance, C2_AVG_SPEED_KMH)
        time_pressure == Max2(0, (8 * travel_time) \div (10 * order.deadline_hours))
    IN [score |-> distance_score + priority_score(order) + capacity_score + time_pressure,
        raw_distance_km |-> distance,
        travel_time_hours |-> travel_time]

\* truck_assignment.py calculate_score; an assignment there has no duration
\* and no cost
calculate_score(truck, order) ==
    LET distance == C2_calculate_distance(truck.lat, order.pickup_lat)
        priority_weight == CASE order.priority = "urgent" -> 50
                             [] order.priority = "high" -> 70
                             [] OTHER -> 100
        capacity_bonus ==
            (10000 * (Tenths(truck.capacity) - Tenths(order.volume)))
                \div Tenths(truck.capacity)
    IN [score |-> distance * priority_weight + capacity_bonus,
        raw_distance_km |-> distance,
        travel_time_hours |-> 0]

\* the score function of the program that runs
ScoreOf(program, truck, order) ==
    IF program = "claude-2" THEN calculate_assignment_score(truck, order)
    ELSE calculate_score(truck, order)

\* the demo fleets: truck i of the list is LKW<i>
C2TruckProfiles(i) ==
    { C2Truck(i, 52, 17000, 6000),
      C2Truck(i, 51, 40000, 0),
      C2Truck(i, 52, 25000, 12000) }

\* the demo order books: order j of the list is AUF<j>
C2OrderProfiles(j) ==
    { C2Order(j, 52, 51, 11000, "normal", 24),
      C2Order(j, 51, 52, 10000, "urgent", 6),
      C2Order(j, 50, 51, 10000, "high", 12),
      C2Order(j, 52, 50, 50000, "low", 24) }

C2TruckLists ==
    UNION { { s \in [1..n -> UNION {C2TruckProfiles(i) : i \in 1..n}] :
                \A i \in 1..n : s[i] \in C2TruckProfiles(i) } : n \in 0..NumTrucks }

C2OrderLists ==
    UNION { { s \in [1..n -> UNION {C2OrderProfiles(j) : j \in 1..n}] :
                \A j \in 1..n : s[j] \in C2OrderProfiles(j) } : n \in 0..NumOrders }

-----------------------------------------------------------------------------
(* _archive/claude-2.py: the two greedy strategies.  Trucks and orders are  *)
(* objects shared by every list that holds them, so sorted_trucks,          *)
(* sorted_orders and available_orders are lists of positions in the truck   *)
(* list and the order list.                                                  *)

\* available_orders.remove(order): the first element equal to the order
RemoveEqualOrder(available, orders, o) ==
    LET p == CHOOSE p \in 1..Len(available) :
                /\ orders[available[p]] = orders[o]
                /\ \A q \in 1..(p - 1) : orders[available[q]] # orders[o]
    IN SubSeq(available, 1, p - 1) \o SubSeq(available, p + 1, Len(available))

\* sorted(trucks, key=lambda t: t.available_capacity, reverse=True)
SortedTrucks(trucks) ==
    StableSort([i \in 1..Len(trucks) |-> i],
               [i \in 1..Len(trucks) |-> 0 - C2_available_capacity(trucks[i])])

\* priority_order.index(o.priority)
PriorityIndex(priority) ==
    CASE priority = "urgent" -> 0
      [] priority = "high"   -> 1
      [] priority = "normal" -> 2
      [] priority = "low"    -> 3

\* sorted_orders without the sort: the orders in input order
SortedOrders_InputOrder(available, orders) == available

\* sorted(available_orders, key=lambda o: priority_order.index(o.priority))
SortedOrders(available, orders) ==
    StableSort(available,
               [i \in 1..Len(available) |-> PriorityIndex(orders[available[i]].priority)])

\* the filter of available_orders that also drops the first order of the book
UnassignedOrders_DropsFirst(orders) ==
    SelectSeqBy([i \in 1..Len(orders) |-> i],
                { i \in 2..Len(orders) : ~is_assigned(orders[i]) })

\* [o for o in orders if not o.is_assigned]
UnassignedOrders(orders) ==
    SelectSeqBy([i \in 1..Len(orders) |-> i],
                { i \in 1..Len(orders) : ~is_assigned(orders[i]) })

\* the inner loop with "score <= best_score": on equal scores the last order
\* of available_orders wins
BestOrder_LastOnTie(program, truck, available, orders) ==
    LET cand == { p \in 1..Len(available) : can_handle_order(truck, orders[available[p]]) }
        s(p) == ScoreOf(program, truck, orders[available[p]]).score
    IN IF cand = {} THEN 0
       ELSE CHOOSE p \in cand : \A q \in cand : s(p) < s(q) \/ (s(p) = s(q) /\ p >= q)

\* the inner loop of GreedyNearestStrategy.assign and of assign_orders_greedy:
\* the position in available_orders of the first order of the lowest score
\* among those the truck can handle, 0 if there is none
BestOrder(program, truck, available, orders) ==
    LET cand == { p \in 1..Len(available) : can_handle_order(truck, orders[available[p]]) }
        s(p) == ScoreOf(program, truck, orders[available[p]]).score
    IN IF cand = {} THEN 0
       ELSE CHOOSE p \in cand : \A q \in cand : s(p) < s(q) \/ (s(p) = s(q) /\ p <= q)

\* the inner loop of PriorityFirstStrategy.assign: the position in
\* available_trucks (a copy of the truck list that is never shortened) of the
\* first truck of the lowest score among those that can handle the order
BestTruck(order, trucks) ==
    LET cand == { t \in 1..Len(trucks) : can_handle_order(trucks[t], order) }
        s(t) == calculate_assignment_score(trucks[t], order).score
    IN IF cand = {} THEN 0
       ELSE CHOOSE t \in cand : \A u \in cand : s(t) < s(u) \/ (s(t) = s(u) /\ t <= u)

\* Assignment(...)
Assignment(program, truck, order) ==
    LET d == ScoreOf(program, truck, order)
    IN [truck_id |-> truck.truck_id, order_id |-> order.order_id,
        distance_km |-> d.raw_distance_km,
        estimated_duration |-> d.travel_time_hours,
        total_cost |-> IF program = "claude-2" THEN d.raw_distance_km * truck.cost_per_km
                       ELSE 0,
        score |-> d.score]

\* Commit that leaves the order in available_orders
Commit_KeepsOrderAvailable(program, st, t, o) ==
    LET orders_after == [st.orders EXCEPT ![o].assigned_truck = st.trucks[t].truck_id]
    IN [trucks |-> [st.trucks EXCEPT
                      ![t].current_load = FloatAdd(@, st.orders[o].volume)],
        orders |-> orders_after,
        available_orders |-> st.available_orders,
        assignments |-> Append(st.assignments,
                               Assignment(program, st.trucks[t], st.orders[o]))]

\* the commit: append the assignment, mark the order, load the truck, remove
\* the order from available_orders
Commit(program, st, t, o) ==
    LET orders_after == [st.orders EXCEPT ![o].assigned_truck = st.trucks[t].truck_id]
    IN [trucks |-> [st.trucks EXCEPT
                      ![t].current_load = FloatAdd(@, st.orders[o].volume)],
        orders |-> orders_after,
        available_orders |-> RemoveEqualOrder(st.available_orders, orders_after, o),
        assignments |-> Append(st.assignments,
                               Assignment(program, st.trucks[t], st.orders[o]))]

\* one pass of "for truck in sorted_trucks" for the truck at position t
GreedyPass(program, st, t) ==
    LET p == BestOrder(program, st.trucks[t], st.available_orders, st.orders)
    IN IF p = 0 THEN st ELSE Commit(program, st, t, st.available_orders[p])

\* one pass of "for order in sorted_orders" for the order at position o
PriorityPass(st, o) ==
    LET t == BestTruck(st.orders[o], st.trucks)
    IN IF t = 0 THEN st ELSE Commit("claude-2", st, t, o)

\* analyze_assignments: the analysis dict
analyze_assignments(assignments, trucks, orders, unassigned_orders) ==
    LET n == Len(assignments)
        distances == [i \in 1..n |-> assignments[i].distance_km]
        costs == [i \in 1..n |-> assignments[i].total_cost]
        volume_of(a) ==
            LET o == CHOOSE o \in 1..Len(orders) :
                        /\ orders[o].order_id = a.order_id
                        /\ \A q \in 1..(o - 1) : orders[q].order_id # a.order_id
            IN Tenths(orders[o].volume)
        assigned_volume == SumOver(1..n, [i \in 1..n |-> volume_of(assignments[i])])
        total_volume == SumOver(1..Len(orders),
                                [i \in 1..Len(orders) |-> Tenths(orders[i].volume)])
        truck_utilizations == [i \in 1..Len(trucks) |-> utilization_percent(trucks[i])]
        priority_stats(priority) ==
            LET priority_orders == { i \in 1..Len(orders) : orders[i].priority = priority }
                assigned_priority_orders == { i \in priority_orders : is_assigned(orders[i]) }
            IN [total |-> Cardinality(priority_orders),
                assigned |-> Cardinality(assigned_priority_orders),
                rate |-> IF priority_orders # {}
                         THEN (Cardinality(assigned_priority_orders) * 1000)
                                  \div Cardinality(priority_orders)
                         ELSE 0]
    IN [total_assignments |-> n,
        total_orders |-> Len(orders),
        unassigned_orders |-> Len(unassigned_orders),
        assignment_rate |-> IF orders # <<>> THEN (n * 1000) \div Len(orders) ELSE 0,
        avg_distance_km |-> IF n > 0 THEN SumOver(1..n, distances) \div n ELSE 0,
        min_distance_km |-> IF n > 0 THEN 0 - MaxOf({0 - distances[i] : i \in 1..n}) ELSE 0,
        max_distance_km |-> IF n > 0 THEN MaxOf(Range(distances)) ELSE 0,
        total_distance_km |-> IF n > 0 THEN SumOver(1..n, distances) ELSE 0,
        total_cost_euro |-> IF n > 0 THEN SumOver(1..n, costs) ELSE 0,
        avg_cost_euro |-> IF n > 0 THEN SumOver(1..n, costs) \div n ELSE 0,
        assigned_volume_tons |-> assigned_volume,
        total_volume_tons |-> total_volume,
        volume_assignment_rate |->
            IF total_volume # 0 THEN (assigned_volume * 1000) \div total_volume ELSE 0,
        avg_truck_utilization |->
            IF trucks # <<>>
            THEN SumOver(1..Len(trucks), truck_utilizations) \div Len(trucks)
            ELSE 0,
        priority_statistics |->
            [priority \in {"urgent", "high", "normal", "low"} |-> priority_stats(priority)]]

\* a call of analyze_assignments that adds the assigned volumes to the loads
analyze_assignments_call_LoadsTrucks(assignments, trucks, orders, unassigned_orders) ==
    [analysis |-> analyze_assignments(assignments, trucks, orders, unassigned_orders),
     assignments |-> assignments,
     trucks |-> [i \in 1..Len(trucks) |->
                    [trucks[i] EXCEPT !.current_load =
                        @ + 1000 * Cardinality({ k \in 1..Len(assignments) :
                                assignments[k].truck_id = trucks[i].truck_id })]],
     orders |-> orders]

\* a call of analyze_assignments: the dict it returns and its arguments as
\* the call leaves them (the function assigns to no attribute and to no list)
analyze_assignments_call(assignments, trucks, orders, unassigned_orders) ==
    [analysis |-> analyze_assignments(assignments, trucks, orders, unassigned_orders),
     assignments |-> assignments,
     trucks |-> trucks,
     orders |-> orders]

-----------------------------------------------------------------------------
(* _archive/claude-2.py: main, step by step; every pass of the for loop of  *)
(* an assign call is a step                                                  *)

\* the state an assign call works on
AssignState ==
    [trucks |-> c2_trucks, orders |-> c2_orders,
     available_orders |-> c2_available_orders, assignments |-> c2_assignments]

\* main, "Reset truck loads" and "Reset order assignments": the load is
\* assigned to itself
C2ResetEntities ==
    /\ c2_pc = "reset"
    /\ c2_trucks' = [i \in 1..Len(c2_trucks) |->
                        [c2_trucks[i] EXCEPT !.current_load = c2_trucks[i].current_load]]
    /\ c2_orders' = [j \in 1..Len(c2_orders) |->
                        [c2_orders[j] EXCEPT !.assigned_truck = None]]
    /\ c2_pc' = "assign"
    /\ UNCHANGED <<c2_program, c2_input_trucks, c2_strategy, c2_sorted, c2_index,
                   c2_available_orders, c2_assignments, c2_returned, c2_best,
                   c2_analysis, c2_analysis_again>>
    /\ UNCHANGED <<dispoVars, monoVars, c4Vars, auxVars>>

\* GreedyNearestStrategy.assign up to the for loop
C2GreedyStart ==
    /\ c2_pc = "assign"
    /\ c2_program = "claude-2"
    /\ c2_strategy = 1
    /\ c2_assignments' = <<>>
    /\ c2_available_orders' = UnassignedOrders(c2_orders)
    /\ c2_sorted' = SortedTrucks(c2_trucks)
    /\ c2_index' = 1
    /\ c2_pc' = "greedy_loop"
    /\ UNCHANGED <<c2_program, c2_input_trucks, c2_trucks, c2_orders, c2_strategy,
                   c2_returned, c2_best, c2_analysis, c2_analysis_again>>
    /\ UNCHANGED <<dispoVars, monoVars, c4Vars, auxVars>>

\* one pass of "for truck in sorted_trucks"
C2GreedyIterate ==
    /\ c2_pc = "greedy_loop"
    /\ c2_index <= Len(c2_sorted)
    /\ LET after == GreedyPass(c2_program, AssignState, c2_sorted[c2_index])
       IN /\ c2_trucks' = after.trucks
          /\ c2_orders' = after.orders
          /\ c2_available_orders' = after.available_orders
          /\ c2_assignments' = after.assignments
    /\ c2_index' = c2_index + 1
    /\ UNCHANGED <<c2_pc, c2_program, c2_input_trucks, c2_strategy, c2_sorted,
                   c2_returned, c2_best, c2_analysis, c2_analysis_again>>
    /\ UNCHANGED <<dispoVars, monoVars, c4Vars, auxVars>>

\* return assignments, available_orders
C2GreedyReturn ==
    /\ c2_pc = "greedy_loop"
    /\ c2_index > Len(c2_sorted)
    /\ c2_returned' = [assignments |-> c2_assignments, unassigned |-> c2_available_orders]
    /\ c2_pc' = IF c2_program = "claude-2" THEN "evaluate" ELSE "report"
    /\ UNCHANGED <<c2_program, c2_input_trucks, c2_trucks, c2_orders, c2_strategy,
                   c2_sorted, c2_index, c2_available_orders, c2_assignments, c2_best,
                   c2_analysis, c2_analysis_again>>
    /\ UNCHANGED <<dispoVars, monoVars, c4Vars, auxVars>>

\* PriorityFirstStrategy.assign up to the for loop
C2PriorityStart ==
    /\ c2_pc = "assign"
    /\ c2_program = "claude-2"
    /\ c2_strategy = 2
    /\ c2_assignments' = <<>>
    /\ c2_available_orders' = UnassignedOrders(c2_orders)
    /\ c2_sorted' = SortedOrders(UnassignedOrders(c2_orders), c2_orders)
    /\ c2_index' = 1
    /\ c2_pc' = "priority_loop"
    /\ UNCHANGED <<c2_program, c2_input_trucks, c2_trucks, c2_orders, c2_strategy,
                   c2_returned, c2_best, c2_analysis, c2_analysis_again>>
    /\ UNCHANGED <<dispoVars, monoVars, c4Vars, auxVars>>

\* one pass of "for order in sorted_orders"
C2PriorityIterate ==
    /\ c2_pc = "priority_loop"
    /\ c2_index <= Len(c2_sorted)
    /\ LET after == PriorityPass(AssignState, c2_sorted[c2_index])
       IN /\ c2_trucks' = after.trucks
          /\ c2_orders' = after.orders
          /\ c2_available_orders' = after.available_orders
          /\ c2_assignments' = after.assignments
    /\ c2_index' = c2_index + 1
    /\ UNCHANGED <<c2_pc, c2_program, c2_input_trucks, c2_strategy, c2_sorted,
                   c2_returned, c2_best, c2_analysis, c2_analysis_again>>
    /\ UNCHANGED <<dispoVars, monoVars, c4Vars, auxVars>>

\* return assignments, available_orders
C2PriorityReturn ==
    /\ c2_pc = "priority_loop"
    /\ c2_index > Len(c2_sorted)
    /\ c2_returned' = [assignments |-> c2_assignments, unassigned |-> c2_available_orders]
    /\ c2_pc' = "evaluate"
    /\ UNCHANGED <<c2_program, c2_input_trucks, c2_trucks, c2_orders, c2_strategy,
                   c2_sorted, c2_index, c2_available_orders, c2_assignments, c2_best,
                   c2_analysis, c2_analysis_again>>
    /\ UNCHANGED <<dispoVars, monoVars, c4Vars, auxVars>>

\* main, "Bewerte Strategie" and "Behalte beste Strategie"; the assignment
\* rate divides by len(orders), and main turns the ZeroDivisionError of an
\* empty order book into sys.exit(1)
C2Evaluate ==
    /\ c2_pc = "evaluate"
    /\ IF c2_orders = <<>>
       THEN /\ c2_pc' = "failed"
            /\ UNCHANGED <<c2_best, c2_strategy>>
       ELSE LET assignments == c2_returned.assignments
                total_score == SumOver(1..Len(assignments),
                                       [i \in 1..Len(assignments) |-> assignments[i].score])
            IN /\ c2_best' = IF total_score < c2_best.best_score
                             THEN [best_strategy |-> c2_strategy,
                                   best_assignments |-> assignments,
                                   best_unassigned |-> c2_returned.unassigned,
                                   best_score |-> total_score]
                             ELSE c2_best
               /\ IF c2_strategy = 1
                  THEN c2_strategy' = 2 /\ c2_pc' = "reset"
                  ELSE c2_strategy' = c2_strategy /\ c2_pc' = "analyze"
    /\ UNCHANGED <<c2_program, c2_input_trucks, c2_trucks, c2_orders, c2_sorted,
                   c2_index, c2_available_orders, c2_assignments, c2_returned,
                   c2_analysis, c2_analysis_again>>
    /\ UNCHANGED <<dispoVars, monoVars, c4Vars, auxVars>>

\* main, step 4: analysis of the best solution
C2Analyze ==
    /\ c2_pc = "analyze"
    /\ LET call == analyze_assignments_call(c2_best.best_assignments, c2_trucks,
                                            c2_orders, c2_best.best_unassigned)
       IN /\ c2_analysis' = call.analysis
          /\ c2_trucks' = call.trucks
          /\ c2_orders' = call.orders
          /\ c2_best' = [c2_best EXCEPT !.best_assignments = call.assignments]
    /\ c2_pc' = "report"
    /\ UNCHANGED <<c2_program, c2_input_trucks, c2_strategy, c2_sorted, c2_index,
                   c2_available_orders, c2_assignments, c2_returned, c2_analysis_again>>
    /\ UNCHANGED <<dispoVars, monoVars, c4Vars, auxVars>>

\* main, steps 5 and 6 (truck_assignment.py: print_results, save_results_csv):
\* printing and exporting read the entities only
C2Report ==
    /\ c2_pc = "report"
    /\ c2_pc' = "done"
    /\ UNCHANGED <<c2_program, c2_input_trucks, c2_trucks, c2_orders, c2_strategy,
                   c2_sorted, c2_index, c2_available_orders, c2_assignments,
                   c2_returned, c2_best, c2_analysis, c2_analysis_again>>
    /\ UNCHANGED <<dispoVars, monoVars, c4Vars, auxVars>>

\* a caller that repeats analyze_assignments on what main analysed
C2AnalyzeAgain ==
    /\ c2_pc = "done"
    /\ c2_program = "claude-2"
    /\ c2_analysis_again = None
    /\ LET call == analyze_assignments_call(c2_best.best_assignments, c2_trucks,
                                            c2_orders, c2_best.best_unassigned)
       IN /\ c2_analysis_again' = call.analysis
          /\ c2_trucks' = call.trucks
          /\ c2_orders' = call.orders
          /\ c2_best' = [c2_best EXCEPT !.best_assignments = call.assignments]
    /\ UNCHANGED <<c2_pc, c2_program, c2_input_trucks, c2_strategy, c2_sorted,
                   c2_index, c2_available_orders, c2_assignments, c2_returned,
                   c2_analysis>>
    /\ UNCHANGED <<dispoVars, monoVars, c4Vars, auxVars>>

\* truck_assignment.py: assign_orders_greedy up to the for loop; the passes
\* of its loop and its return are those of GreedyNearestStrategy.assign with
\* calculate_score as the score
TaGreedyStart ==
    /\ c2_pc = "assign"
    /\ c2_program = "truck_assignment"
    /\ c2_assignments' = <<>>
    /\ c2_available_orders' = [i \in 1..Len(c2_orders) |-> i]
    /\ c2_sorted' = SortedTrucks(c2_trucks)
    /\ c2_index' = 1
    /\ c2_pc' = "greedy_loop"
    /\ UNCHANGED <<c2_program, c2_input_trucks, c2_trucks, c2_orders, c2_strategy,
                   c2_returned, c2_best, c2_analysis, c2_analysis_again>>
    /\ UNCHANGED <<dispoVars, monoVars, c4Vars, auxVars>>

\* the demo data: ids LKW1.., AUF1.. are unique; main of claude-2.py enters
\* its loop over the strategies, main of truck_assignment.py calls
\* assign_orders_greedy
InitC2 ==
    /\ DispoIdle
    /\ MonoIdle
    /\ C4Idle
    /\ AuxIdle
    /\ c2_program \in {"claude-2", "truck_assignment"}
    /\ c2_pc = IF c2_program = "claude-2" THEN "reset" ELSE "assign"
    /\ c2_trucks \in C2TruckLists
    /\ c2_input_trucks = c2_trucks
    /\ c2_orders \in C2OrderLists
    /\ c2_strategy = 1
    /\ c2_sorted = <<>>
    /\ c2_index = 0
    /\ c2_available_orders = <<>>
    /\ c2_assignments = <<>>
    /\ c2_returned = None
    /\ c2_best = [best_strategy |-> 0, best_assignments |-> <<>>,
                  best_unassigned |-> <<>>, best_score |-> Infinity]
    /\ c2_analysis = None
    /\ c2_analysis_again = None

NextC2 ==
    \/ C2ResetEntities
    \/ C2GreedyStart
    \/ C2GreedyIterate
    \/ C2GreedyReturn
    \/ C2PriorityStart
    \/ C2PriorityIterate
    \/ C2PriorityReturn
    \/ C2Evaluate
    \/ C2Analyze
    \/ C2Report
    \/ C2AnalyzeAgain
    \/ TaGreedyStart

SpecC2 == InitC2 /\ [][NextC2]_vars

-----------------------------------------------------------------------------
(* Claims about the greedy strategies and the aggregator                    *)
(* (specifications SpecC2 and SpecStrategies)                                *)

\* no truck id and no order id is in two of the assignments
UniqueIds(assignments) ==
    \A i, j \in 1..Len(assignments) :
        i # j => /\ assignments[i].truck_id # assignments[j].truck_id
                 /\ assignments[i].order_id # assignments[j].order_id

\* c2_assignments is the list of a greedy assign call that runs or has returned
C11_InGreedy ==
    \/ c2_pc = "greedy_loop"
    \/ c2_pc = "evaluate" /\ c2_strategy = 1
    \/ c2_program = "truck_assignment" /\ c2_pc \in {"report", "done"}

C11_Unique == C11_InGreedy => UniqueIds(c2_assignments)

\* a pass of the greedy loop that commits: the volume of the order fits the
\* capacity the truck had left before the commit
C11_CommitStep ==
    (c2_pc = "greedy_loop" /\ Len(c2_assignments') = Len(c2_assignments) + 1)
    => LET a == c2_assignments'[Len(c2_assignments')]
       IN \E t \in 1..Len(c2_trucks), o \in 1..Len(c2_orders) :
             /\ c2_trucks[t].truck_id = a.truck_id
             /\ c2_orders[o].order_id = a.order_id
             /\ c2_orders[o].volume
                    <= FloatSub(c2_trucks[t].capacity, c2_trucks[t].current_load)

\* C11: GreedyNearestStrategy.assign (and assign_orders_greedy) returns every
\* truck id and every order id in at most one assignment, and at each commit
\* the volume of the order was at most capacity - current_load of the truck.
C11_GreedyOneOrderPerTruck == [](C11_Unique) /\ [][C11_CommitStep]_vars

C11_Witness ==
    /\ c2_pc = "evaluate"
    /\ c2_strategy = 1
    /\ Len(c2_returned.assignments) = 2
    /\ Len(c2_returned.unassigned) = 0

\* C12: PriorityFirstStrategy.assign returns no truck id and no order id in
\* more than one assignment.
C12_PriorityOneOrderPerTruck ==
    (c2_pc = "priority_loop" \/ (c2_pc = "evaluate" /\ c2_strategy = 2))
    => UniqueIds(c2_assignments)

\* C13: at every moment of the greedy runs every truck satisfies
\* current_load <= capacity.
C13_LoadInvariant ==
    \A t \in 1..Len(c2_trucks) : c2_trucks[t].current_load <= c2_trucks[t].capacity

\* C14: when main of claude-2.py calls assign of a strategy, every truck has
\* the load of the input data and no order is assigned.
C14_FreshStart ==
    (c2_program = "claude-2" /\ c2_pc = "assign")
    => /\ \A t \in 1..Len(c2_trucks) :
              c2_trucks[t].current_load = c2_input_trucks[t].current_load
       /\ \A o \in 1..Len(c2_orders) : c2_orders[o].assigned_truck = None

\* main_dispo or one of the two programs with greedy strategies runs
InitStrategies == Init \/ InitC2

NextStrategies == Next \/ NextC2

SpecStrategies == InitStrategies /\ [][NextStrategies]_vars

\* the order ids of a list of ids or objects
C15_Ids(ids) == { ids[i] : i \in 1..Len(ids) }

C15_GreedyPartition ==
    c2_returned # None
    => LET assigned == [i \in 1..Len(c2_returned.assignments) |->
                           c2_returned.assignments[i].order_id]
           unassigned == [i \in 1..Len(c2_returned.unassigned) |->
                             c2_orders[c2_returned.unassigned[i]].order_id]
           all == [i \in 1..Len(c2_orders) |-> c2_orders[i].order_id]
       IN /\ C15_Ids(unassigned) = C15_Ids(all) \ C15_Ids(assigned)
          /\ C15_Ids(assigned) \subseteq C15_Ids(all)
          /\ Len(assigned) + Len(unassigned) = Len(all)

C15_OptimalPartition ==
    Extracted
    => LET assigned == [i \in 1..Len(assigned_details) |-> assigned_details[i].auftrag_id]
           unassigned == [i \in 1..Len(unassigned_obj) |-> unassigned_obj[i].order_id]
           all == [i \in 1..Len(order_list) |-> order_list[i].order_id]
       IN /\ C15_Ids(unassigned) = C15_Ids(all) \ C15_Ids(assigned)
          /\ C15_Ids(assigned) \subseteq C15_Ids(all)
          /\ Len(assigned) + Len(unassigned) = Len(all)

\* C15: for extract_and_show_results, GreedyNearest and PriorityFirst the
\* unassigned list holds exactly the orders of no assignment, and the number
\* of assignments plus the number of unassigned orders is the number of
\* orders (no order is assigned before the call).
C15_AssignedUnassignedPartition == C15_GreedyPartition /\ C15_OptimalPartition

C15_Witness ==
    /\ c2_pc = "evaluate"
    /\ c2_strategy = 2
    /\ Len(c2_returned.assignments) = 1
    /\ Len(c2_returned.unassigned) = 1

\* one of the two programs with an aggregator runs
InitAnalysis == InitC2 \/ InitC4

NextAnalysis == NextC2 \/ NextC4

SpecAnalysis == InitAnalysis /\ [][NextAnalysis]_vars

\* analyze_optimization_results on a result without assignments
C17_OptimizerEmptySetAllZero ==
    (c4_analysis # None /\ c4_result.assignments = <<>>)
    => /\ {"avg_distance_km", "total_distance_km", "avg_cost_per_assignment",
            "assigned_volume_tons", "avg_truck_utilization"} \subseteq DOMAIN c4_analysis
       /\ c4_analysis.total_cost = 0
       /\ c4_analysis.assignment_rate = 0

\* analyze_assignments on an empty list of assignments
C17_AnalyzeEmptySetAllZero ==
    (c2_analysis # None /\ c2_best.best_assignments = <<>>)
    => /\ c2_analysis.total_distance_km = 0
       /\ c2_analysis.avg_distance_km = 0
       /\ c2_analysis.min_distance_km = 0
       /\ c2_analysis.max_distance_km = 0
       /\ c2_analysis.total_cost_euro = 0
       /\ c2_analysis.avg_cost_euro = 0
       /\ c2_analysis.assigned_volume_tons = 0
       /\ c2_analysis.assignment_rate = 0
       /\ c2_analysis.avg_truck_utilization = 0

\* C17: with no assignment analyze_assignments and
\* analyze_optimization_results hold every metric with value zero.
C17_EmptySetAllZero == C17_AnalyzeEmptySetAllZero /\ C17_OptimizerEmptySetAllZero

C18_SameResult == c2_analysis_again # None => c2_analysis_again = c2_analysis

\* a call of analyze_assignments leaves trucks, orders and assignments alone
C18_CallStep ==
    (c2_pc = "analyze" \/ (c2_pc = "done" /\ c2_analysis_again' # c2_analysis_again))
    => /\ c2_trucks' = c2_trucks
       /\ c2_orders' = c2_orders
       /\ c2_best' = c2_best

-----------------------------------------------------------------------------
(* dispo.py: two calls of determine_permissible_pairs_and_values in a row   *)
(* on the same lists (specification SpecDet)                                *)

\* a call that leaves the truck it found a pair for available only from
\* the end of that tour
determine_permissible_pairs_and_values_call_AdvancesTruck(tl, ol) ==
    LET perm == determine_permissible_pairs_and_values(tl, ol)
        End(i) == MaxOf({tl[i].available_from_h} \cup
                        { perm[key].entladung_ende_calc_h :
                            key \in { k \in DOMAIN perm : k[1] = tl[i].truck_id } })
    IN [result |-> perm,
        truck_list |-> [i \in 1..Len(tl) |-> [tl[i] EXCEPT !.available_from_h = End(i)]],
        order_list |-> ol]

\* a call seen from the caller: the returned dict and the two argument lists
\* as the call leaves them.  The function reads truck and order attributes
\* and writes only to its local dict.
determine_permissible_pairs_and_values_call(tl, ol) ==
    [result |-> determine_permissible_pairs_and_values(tl, ol),
     truck_list |-> tl,
     order_list |-> ol]

DetFirstCall ==
    /\ det_pc = "first"
    /\ LET call == determine_permissible_pairs_and_values_call(truck_list, order_list)
       IN /\ permissible_pairs_with_values' = call.result
          /\ truck_list' = call.truck_list
          /\ order_list' = call.order_list
    /\ det_pc' = "second"
    /\ UNCHANGED <<pc, optimization_problem, x_decision_variables, status,
                   assigned_details, unassigned_obj, truck_util, saved_files>>
    /\ UNCHANGED <<det_second, ttVars, ctorVars, monoVars, c4Vars, c2Vars, extVars>>

DetSecondCall ==
    /\ det_pc = "second"
    /\ LET call == determine_permissible_pairs_and_values_call(truck_list, order_list)
       IN /\ det_second' = call.result
          /\ truck_list' = call.truck_list
          /\ order_list' = call.order_list
    /\ det_pc' = "done"
    /\ UNCHANGED <<pc, permissible_pairs_with_values, optimization_problem,
                   x_decision_variables, status, assigned_details, unassigned_obj,
                   truck_util, saved_files>>
    /\ UNCHANGED <<ttVars, ctorVars, monoVars, c4Vars, c2Vars, extVars>>

InitDet ==
    /\ truck_list \in TruckLists
    /\ order_list \in OrderLists
    /\ pc = "idle"
    /\ permissible_pairs_with_values = None
    /\ optimization_problem = None
    /\ x_decision_variables = None
    /\ status = NoStatus
    /\ assigned_details = <<>>
    /\ unassigned_obj = <<>>
    /\ truck_util = None
    /\ saved_files = <<>>
    /\ det_pc = "first"
    /\ det_second = None
    /\ TravelIdle
    /\ CtorIdle
    /\ MonoIdle
    /\ C4Idle
    /\ C2Idle
    /\ ExtIdle

NextDet == DetFirstCall \/ DetSecondCall

SpecDet == InitDet /\ [][NextDet]_vars

\* the second call returned the map of the first call
C16_SameMap == det_pc = "done" => det_second = permissible_pairs_with_values

\* a call leaves every field of every truck and order as it was
C16_CallStep == truck_list' = truck_list /\ order_list' = order_list

-----------------------------------------------------------------------------
(* The travel time functions of the three programs on a configured average  *)
(* speed (specification SpecTravel).  dispo.py reads the speed from the      *)
(* module constant AVERAGE_SPEED_KMH, the two archive programs take it as an *)
(* argument; none of the programs checks the speed before the first call.    *)

\* the average speeds tried, in km/h
TravelSpeeds == {0 - 10, 0, 45, 50, 80}

\* the distances tried, in 0.01 km
TravelDistances == {0, 50, 11119, 22239, 33358, 44478}

\* dispo.py: approach_time_h = calculate_travel_time_h(approach_distance)
TravelDispo ==
    /\ tt_pc = "dispo"
    /\ tt_result' = [function |-> "calculate_travel_time_h",
                     hours |-> calculate_travel_time_h_configured(tt_distance, tt_speed)]
    /\ tt_pc' = "returned"
    /\ UNCHANGED <<tt_distance, tt_speed>>
    /\ UNCHANGED <<dispoVars, detVars, ctorVars, monoVars, c4Vars, c2Vars, extVars>>

\* claude-2.py: travel_time = estimate_travel_time(distance, avg_speed_kmh)
TravelClaude2 ==
    /\ tt_pc = "claude-2"
    /\ tt_result' = [function |-> "estimate_travel_time",
                     hours |-> estimate_travel_time(tt_distance, tt_speed)]
    /\ tt_pc' = "returned"
    /\ UNCHANGED <<tt_distance, tt_speed>>
    /\ UNCHANGED <<dispoVars, detVars, ctorVars, monoVars, c4Vars, c2Vars, extVars>>

\* pulp-1-c4.py: travel_time = estimate_travel_time_hours(distance, avg_speed_kmh)
TravelC4 ==
    /\ tt_pc = "pulp-1-c4"
    /\ tt_result' = [function |-> "estimate_travel_time_hours",
                     hours |-> estimate_travel_time_hours_at(tt_distance, tt_speed)]
    /\ tt_pc' = "returned"
    /\ UNCHANGED <<tt_distance, tt_speed>>
    /\ UNCHANGED <<dispoVars, detVars, ctorVars, monoVars, c4Vars, c2Vars, extVars>>

InitTravel ==
    /\ tt_pc \in {"dispo", "claude-2", "pulp-1-c4"}
    /\ tt_distance \in TravelDistances
    /\ tt_speed \in TravelSpeeds
    /\ tt_result = None
    /\ DispoIdle
    /\ DetIdle
    /\ CtorIdle
    /\ MonoIdle
    /\ C4Idle
    /\ C2Idle
    /\ ExtIdle

NextTravel == TravelDispo \/ TravelClaude2 \/ TravelC4

SpecTravel == InitTravel /\ [][NextTravel]_vars

\* C19: with an average speed <= 0 no travel time function returns a value
\* (infinity, 0 or a large placeholder) to the feasibility analysis or the
\* score: the speed is rejected as a configuration error.
C19_NonPositiveSpeedRejected == tt_speed <= 0 => tt_pc # "returned"

\* the three values returned for a speed of 0 km/h
C19_ReturnedForSpeedZero ==
    (tt_pc = "returned" /\ tt_speed <= 0 /\ tt_distance > 0)
    => \/ tt_result.function = "calculate_travel_time_h" /\ tt_result.hours = Infinity
       \/ tt_result.function = "estimate_travel_time" /\ tt_result.hours = 0
       \/ /\ tt_result.function = "estimate_travel_time_hours"
          /\ tt_result.hours = 999 * C4TicksPerHour

-----------------------------------------------------------------------------
(* dispo.py: construction of the entities from raw arguments, followed by   *)
(* the feasibility analysis (specification SpecCtor).  Truck.__init__ and   *)
(* Order.__init__ store their arguments; they contain no check and no raise. *)

\* the arguments of Truck(...) tried for truck i: two usable trucks, one
\* without capacity, one with negative capacity, two whose availability
\* window is empty or inverted
RawTruckArgs(i) ==
    { <<i, 52, 20, Hours(6, 0), Hours(18, 0)>>,
      <<i, 51, 30, Hours(7, 0), Hours(17, 0)>>,
      <<i, 52, 0, Hours(6, 0), Hours(18, 0)>>,
      <<i, 51, 0 - 5, Hours(6, 0), Hours(18, 0)>>,
      <<i, 52, 20, Hours(8, 0), Hours(8, 0)>>,
      <<i, 51, 30, Hours(18, 0), Hours(6, 0)>> }

\* the arguments of Order(...) tried for order j: two usable orders, one
\* without weight, one with negative weight, one whose loading window is
\* shorter than its loading duration
RawOrderArgs(j) ==
    { <<j, 51, 51, 25, Hours(8, 0), Hours(12, 0), Hours(1, 0), Hours(1, 0), 1>>,
      <<j, 52, 52, 10, Hours(8, 0), Hours(10, 0), Hours(0, 50), Hours(0, 50), 2>>,
      <<j, 52, 52, 0, Hours(8, 0), Hours(10, 0), Hours(1, 0), Hours(1, 0), 2>>,
      <<j, 51, 51, 0 - 5, Hours(8, 0), Hours(12, 0), Hours(1, 0), Hours(1, 0), 1>>,
      <<j, 52, 52, 10, Hours(8, 0), Hours(8, 30), Hours(1, 0), Hours(1, 0), 3>> }

RawTruckArgLists ==
    UNION { { s \in [1..n -> UNION {RawTruckArgs(i) : i \in 1..n}] :
                \A i \in 1..n : s[i] \in RawTruckArgs(i) } : n \in 0..NumTrucks }

RawOrderArgLists ==
    UNION { { s \in [1..n -> UNION {RawOrderArgs(j) : j \in 1..n}] :
                \A j \in 1..n : s[j] \in RawOrderArgs(j) } : n \in 0..NumOrders }

\* trucks.append(Truck(...)) and orders.append(Order(...)) for every raw
\* argument tuple: no constructor raises, every object is appended
CtorConstruct ==
    /\ ctor_pc = "construct"
    /\ truck_list' = [i \in 1..Len(ctor_truck_args) |->
                        LET a == ctor_truck_args[i]
                        IN Truck(a[1], a[2], a[3], a[4], a[5])]
    /\ order_list' = [j \in 1..Len(ctor_order_args) |->
                        LET a == ctor_order_args[j]
                        IN Order(a[1], a[2], a[3], a[4], a[5], a[6], a[7], a[8], a[9])]
    /\ ctor_pc' = "pairs"
    /\ UNCHANGED <<pc, permissible_pairs_with_values, optimization_problem,
                   x_decision_variables, status, assigned_details, unassigned_obj,
                   truck_util, saved_files>>
    /\ UNCHANGED <<ctor_truck_args, ctor_order_args, detVars, ttVars,
                   monoVars, c4Vars, c2Vars, extVars>>

\* the feasibility analysis on the constructed lists
CtorDeterminePairs ==
    /\ ctor_pc = "pairs"
    /\ permissible_pairs_with_values' =
          determine_permissible_pairs_and_values(truck_list, order_list)
    /\ ctor_pc' = "done"
    /\ UNCHANGED <<truck_list, order_list, pc, optimization_problem,
                   x_decision_variables, status, assigned_details, unassigned_obj,
                   truck_util, saved_files>>
    /\ UNCHANGED <<ctor_truck_args, ctor_order_args, detVars, ttVars,
                   monoVars, c4Vars, c2Vars, extVars>>

InitCtor ==
    /\ ctor_pc = "construct"
    /\ ctor_truck_args \in RawTruckArgLists
    /\ ctor_order_args \in RawOrderArgLists
    /\ DispoIdle
    /\ DetIdle
    /\ TravelIdle
    /\ MonoIdle
    /\ C4Idle
    /\ C2Idle
    /\ ExtIdle

NextCtor == CtorConstruct \/ CtorDeterminePairs

SpecCtor == InitCtor /\ [][NextCtor]_vars

\* a truck without capacity or without a time of availability
C20_MalformedTruck(truck) ==
    \/ truck.capacity_kg <= 0
    \/ truck.available_from_h >= truck.available_until_h

\* an order without weight or whose loading does not fit its window
C20_MalformedOrder(order) ==
    \/ order.weight_kg <= 0
    \/ order.loading_window_late_h <
           order.loading_window_early_h + order.loading_duration_h

\* C20: a malformed Truck or Order is rejected at construction: no truck with
\* capacity <= 0 or available_from >= available_until and no order with
\* weight <= 0 or a loading window shorter than the loading duration is in
\* the lists the feasibility analysis works on.
C20_MalformedRejected ==
    ctor_pc \in {"pairs", "done"}
    => /\ \A i \in 1..Len(truck_list) : ~C20_MalformedTruck(truck_list[i])
       /\ \A j \in 1..Len(order_list) : ~C20_MalformedOrder(order_list[j])

\* a malformed entity is not in a pair the feasibility analysis lets pass
C20_MalformedNeverFeasible ==
    ctor_pc = "done"
    => \A key \in DOMAIN permissible_pairs_with_values :
          /\ ~C20_MalformedTruck(TruckById(truck_list, key[1]))
          /\ ~C20_MalformedOrder(OrderById(order_list, key[2]))

-----------------------------------------------------------------------------
(* Claims about the order in which the strategies of claude-2.py decide     *)
(* (specification SpecC2)                                                    *)

\* the greedy assign call of claude-2.py is in its loop
C21_InLoop == c2_program = "claude-2" /\ c2_pc = "greedy_loop"

\* sorted_trucks holds every truck once, in descending order of the available
\* capacity the truck had when assign was called, equal capacities in the
\* order of the truck list
C21_VisitOrder ==
    C21_InLoop =>
        /\ Len(c2_sorted) = Len(c2_trucks)
        /\ Range(c2_sorted) = 1..Len(c2_trucks)
        /\ \A a, b \in 1..Len(c2_sorted) :
              a < b =>
                LET cap_a == C2_available_capacity(c2_input_trucks[c2_sorted[a]])
                    cap_b == C2_available_capacity(c2_input_trucks[c2_sorted[b]])
                IN cap_a > cap_b \/ (cap_a = cap_b /\ c2_sorted[a] < c2_sorted[b])

\* the pass for a truck commits the first order of minimum score among the
\* remaining orders that fit the truck, and commits nothing if none fits
C21_PassStep ==
    (C21_InLoop /\ c2_index <= Len(c2_sorted)) =>
        LET truck == c2_trucks[c2_sorted[c2_index]]
            fit == { p \in 1..Len(c2_available_orders) :
                       c2_orders[c2_available_orders[p]].volume
                           <= C2_available_capacity(truck) }
            score(p) ==
                calculate_assignment_score(truck, c2_orders[c2_available_orders[p]]).score
        IN IF fit = {}
           THEN /\ c2_assignments' = c2_assignments
                /\ c2_available_orders' = c2_available_orders
           ELSE \E p \in fit :
                  /\ \A q \in fit : score(p) <= score(q)
                  /\ \A q \in fit : q < p => score(p) < score(q)
                  /\ Len(c2_assignments') = Len(c2_assignments) + 1
                  /\ SubSeq(c2_assignments', 1, Len(c2_assignments)) = c2_assignments
                  /\ c2_assignments'[Len(c2_assignments')].truck_id = truck.truck_id
                  /\ c2_assignments'[Len(c2_assignments')].order_id =
                         c2_orders[c2_available_orders[p]].order_id
                  /\ c2_assignments'[Len(c2_assignments')].score = score(p)
                  /\ c2_available_orders' =
                         SubSeq(c2_available_orders, 1, p - 1)
                             \o SubSeq(c2_available_orders, p + 1, Len(c2_available_orders))

C22_InLoop == c2_program = "claude-2" /\ c2_pc = "priority_loop"

\* severity of a priority: urgent before high before normal before low
C22_Severity(priority) ==
    CASE priority = "urgent" -> 1
      [] priority = "high"   -> 2
      [] priority = "normal" -> 3
      [] priority = "low"    -> 4

\* sorted_orders holds every order once; an order of higher severity, and an
\* order of the same priority that is earlier in the input, comes first
C22_DecisionOrder ==
    C22_InLoop =>
        /\ Len(c2_sorted) = Len(c2_orders)
        /\ Range(c2_sorted) = 1..Len(c2_orders)
        /\ \A a, b \in 1..Len(c2_sorted) :
              a < b =>
                LET sev_a == C22_Severity(c2_orders[c2_sorted[a]].priority)
                    sev_b == C22_Severity(c2_orders[c2_sorted[b]].priority)
                IN sev_a < sev_b \/ (sev_a = sev_b /\ c2_sorted[a] < c2_sorted[b])

\* the pass for an order: every order decided before it is committed or was
\* left, and the order gets a truck of minimum score among the trucks that
\* can carry it with their load of that moment, none if no truck can
C22_PassStep ==
    (C22_InLoop /\ c2_index <= Len(c2_sorted)) =>
        LET o == c2_sorted[c2_index]
            order == c2_orders[o]
            can == { t \in 1..Len(c2_trucks) :
                       order.volume <= C2_available_capacity(c2_trucks[t]) }
            score(t) == calculate_assignment_score(c2_trucks[t], order).score
        IN /\ ~is_assigned(order)
           /\ IF can = {}
              THEN /\ c2_assignments' = c2_assignments
                   /\ ~is_assigned(c2_orders'[o])
              ELSE \E t \in can :
                     /\ \A u \in can : score(t) <= score(u)
                     /\ Len(c2_assignments') = Len(c2_assignments) + 1
                     /\ SubSeq(c2_assignments', 1, Len(c2_assignments)) = c2_assignments
                     /\ c2_assignments'[Len(c2_assignments')].order_id = order.order_id
                     /\ c2_assignments'[Len(c2_assignments')].truck_id = c2_trucks[t].truck_id
                     /\ c2_orders'[o].assigned_truck = c2_trucks[t].truck_id

\* C22: PriorityFirstStrategy.assign decides the orders in the order urgent,
\* high, normal, low, orders of equal priority in input order, and gives each
\* order the minimum-score truck among the trucks that can carry it at the
\* moment of its decision.
C22_PriorityDecisionOrder == [](C22_DecisionOrder) /\ [][C22_PassStep]_vars

\* an urgent order that is second in the input was decided first, then the
\* normal order before it in the input; both got a truck
C22_Witness ==
    /\ C22_InLoop
    /\ c2_index = 3
    /\ Len(c2_orders) = 2
    /\ c2_orders[1].priority = "normal"
    /\ c2_orders[2].priority = "urgent"
    /\ Len(c2_assignments) = 2
    /\ c2_assignments[1].order_id = c2_orders[2].order_id

-----------------------------------------------------------------------------
(* Claims about the statistics of analyze_assignments in main of            *)
(* claude-2.py (specification SpecC2)                                        *)

\* the number of assignments of the list whose order has the priority
C23_AssignedOfPriority(assignments, orders, priority) ==
    Cardinality({ k \in 1..Len(assignments) :
                    \E j \in 1..Len(orders) :
                        /\ orders[j].order_id = assignments[k].order_id
                        /\ orders[j].priority = priority })

\* C23: for each priority the assigned count of the priority statistics is
\* the number of assignments of the analysed list whose order has that
\* priority, also when main analyses the assignments of the best strategy.
C23_PriorityStatsOfAnalysedSet ==
    (c2_program = "claude-2" /\ c2_analysis # None) =>
        \A priority \in {"urgent", "high", "normal", "low"} :
            c2_analysis.priority_statistics[priority].assigned =
                C23_AssignedOfPriority(c2_best.best_assignments, c2_orders, priority)

-----------------------------------------------------------------------------
(* Claims about the records of main_dispo (specification Spec)              *)

\* the total distance extract_and_show_results reports for the run
C24_ReportedTotalDistance ==
    extract_and_show_results(x_decision_variables, truck_list, order_list,
                             permissible_pairs_with_values, status).total_distance_final_km

\* the details of the assignments of the truck
C24_DetailsOfTruck(truck_id) ==
    { i \in 1..Len(assigned_details) : assigned_details[i].lkw_id = truck_id }

\* C24: every extracted assignment (t, o) reports the distances, the loading
\* start and end, the unloading end and the priority weight stored for (t, o)
\* in the feasibility map, the reported total distance is the sum of the
\* assignments' total distances, and the utilization entry of a truck names
\* the order of the truck's assignment, None for a truck without assignment.
C24_MetricsUnmodified ==
    Extracted =>
        /\ \A i \in 1..Len(assigned_details) :
              LET d == assigned_details[i]
                  key == <<d.lkw_id, d.auftrag_id>>
              IN /\ key \in DOMAIN permissible_pairs_with_values
                 /\ d.anfahrt_dist_km = permissible_pairs_with_values[key].distanz_anfahrt
                 /\ d.transport_dist_km = permissible_pairs_with_values[key].distanz_transport
                 /\ d.gesamtdistanz_fuer_auftrag_km =
                        permissible_pairs_with_values[key].distanz_gesamt_fuer_auftrag
                 /\ d.ladebeginn_h = permissible_pairs_with_values[key].ladebeginn_calc_h
                 /\ d.ladeende_h = permissible_pairs_with_values[key].ladeende_calc_h
                 /\ d.entladung_ende_h =
                        permissible_pairs_with_values[key].entladung_ende_calc_h
                 /\ d.auftrag_prio_gewicht = permissible_pairs_with_values[key].prio_gewicht
        /\ C24_ReportedTotalDistance =
              SumOver(1..Len(assigned_details),
                      [i \in 1..Len(assigned_details) |->
                          assigned_details[i].gesamtdistanz_fuer_auftrag_km])
        /\ DOMAIN truck_util = { truck_list[t].truck_id : t \in 1..Len(truck_list) }
        /\ \A truck_id \in DOMAIN truck_util :
              IF C24_DetailsOfTruck(truck_id) = {}
              THEN truck_util[truck_id].zugewiesener_auftrag = None
              ELSE \A i \in C24_DetailsOfTruck(truck_id) :
                      truck_util[truck_id].zugewiesener_auftrag =
                          assigned_details[i].auftrag_id

\* one of two trucks got an order with an approach and a transport leg
C24_Witness ==
    /\ Extracted
    /\ Len(truck_list) = 2
    /\ Len(assigned_details) = 1
    /\ assigned_details[1].anfahrt_dist_km > 0
    /\ assigned_details[1].transport_dist_km > 0
    /\ \E t \in 1..Len(truck_list) : C24_DetailsOfTruck(truck_list[t].truck_id) = {}

-----------------------------------------------------------------------------
(* _archive/pulp-1-c4.py: TimeWindow.overlaps_with on two windows, called   *)
(* in both directions (specification SpecWindow)                             *)

MaxWindowHour == 4      \* latest hour of a window

\* the windows TimeWindow.__post_init__ accepts: 0 <= earliest_start < latest_end
TimeWindows ==
    { TimeWindow(s, e) : <<s, e>> \in { p \in (0..MaxWindowHour) \X (0..MaxWindowHour) :
                                          p[1] < p[2] } }

\* ow_a.overlaps_with(ow_b)
WindowCall ==
    /\ ow_pc = "call"
    /\ ow_result' = overlaps_with(ow_a, ow_b)
    /\ ow_pc' = "reverse"
    /\ UNCHANGED <<ow_a, ow_b, ow_reverse>>
    /\ UNCHANGED <<dispoVars, monoVars, c4Vars, c2Vars, detVars, ttVars, ctorVars,
                   o4Vars, tmsVars, apiVars, tourVars>>

\* ow_b.overlaps_with(ow_a)
WindowCallReverse ==
    /\ ow_pc = "reverse"
    /\ ow_reverse' = overlaps_with(ow_b, ow_a)
    /\ ow_pc' = "done"
    /\ UNCHANGED <<ow_a, ow_b, ow_result>>
    /\ UNCHANGED <<dispoVars, monoVars, c4Vars, c2Vars, detVars, ttVars, ctorVars,
                   o4Vars, tmsVars, apiVars, tourVars>>

InitWindow ==
    /\ ow_pc = "call"
    /\ ow_a \in TimeWindows
    /\ ow_b \in TimeWindows
    /\ ow_result = FALSE
    /\ ow_reverse = FALSE
    /\ DispoIdle
    /\ MonoIdle
    /\ C4Idle
    /\ C2Idle
    /\ DetIdle
    /\ TravelIdle
    /\ CtorIdle
    /\ O4Idle
    /\ TmsIdle
    /\ ApiIdle
    /\ TourIdle

NextWindow == WindowCall \/ WindowCallReverse

SpecWindow == InitWindow /\ [][NextWindow]_vars

\* window a ends before or when window b starts
C25_Precedes(a, b) == a.latest_end <= b.earliest_start

\* the two windows share more than an endpoint: some time span of positive
\* length lies in both
C25_ShareTime(a, b) ==
    Max2(a.earliest_start, b.earliest_start) <
        0 - Max2(0 - a.latest_end, 0 - b.latest_end)

\* C25: overlaps_with is true exactly when neither window entirely precedes
\* the other, it is symmetric in its two arguments, and two windows that only
\* touch at an endpoint do not overlap.
C25_OverlapUnlessPrecedes ==
    ow_pc = "done" =>
        /\ ow_result = ~(C25_Precedes(ow_a, ow_b) \/ C25_Precedes(ow_b, ow_a))
        /\ ow_result = C25_ShareTime(ow_a, ow_b)
        /\ ow_reverse = ow_result
        /\ (ow_a.latest_end = ow_b.earliest_start \/ ow_b.latest_end = ow_a.earliest_start)
              => ~ow_result

\* two windows that touch at an endpoint were compared
C25_Witness ==
    /\ ow_pc = "done"
    /\ ow_a.latest_end = ow_b.earliest_start
    /\ ~ow_result
    /\ ~ow_reverse

-----------------------------------------------------------------------------
(* dispo.py: the record determine_permissible_pairs_and_values stores for    *)
(* one truck and one order, with the hours as Python floats (specification   *)
(* SpecTour).  An hour value x is the number 10000 * n + e, where n is x     *)
(* rounded to 0.01 h and e = (x - float(n / 100)) / 2^-56: equal floats have *)
(* equal numbers and a larger float has a larger number.  The tables hold    *)
(* the IEEE-754 double results of every sum and difference the records of    *)
(* the trucks and orders below need.  Truck and order are at one site, so    *)
(* both distances and both travel times are 0.0.                              *)

HourAddTable ==
    <<6000000, 0>> :> 6000000 @@ <<7060000, 0>> :> 7060000 @@ <<7890000, 0>> :> 7890000 @@
    <<8000000, 400000>> :> 8400000 @@ <<8000000, 970000>> :> 8970000 @@ <<8000000, 1000000>> :> 9000000 @@
    <<8000000, 1420000>> :> 9420000 @@ <<8400000, 0>> :> 8400000 @@ <<8400000, 670000>> :> 9070000 @@
    <<8970000, 0>> :> 8970000 @@ <<8970000, 400000>> :> 9370128 @@ <<8970000, 820000>> :> 9790128 @@
    <<8970000, 970000>> :> 9940128 @@ <<8970000, 1000000>> :> 9970000 @@ <<8970000, 1420000>> :> 10390000 @@
    <<9000000, 0>> :> 9000000 @@ <<9000000, 10000>> :> 9010000 @@ <<9000000, 1000000>> :> 10000000 @@
    <<9110000, 10000>> :> 9120000 @@ <<9370128, 0>> :> 9370128 @@ <<9370128, 670000>> :> 10040128 @@
    <<9420000, 0>> :> 9420000 @@ <<9420000, 780000>> :> 10200000 @@ <<9940128, 0>> :> 9940128 @@
    <<9940128, 820000>> :> 10760128 @@ <<9970000, 0>> :> 9970000 @@ <<9970000, 1000000>> :> 10970000 @@
    <<10390000, 0>> :> 10390000 @@ <<10390000, 780000>> :> 11170000 @@ <<10600000, 10000>> :> 10610000 @@
    <<11520000, 10000>> :> 11530000 @@ <<12000000, 10000>> :> 12010000 @@ <<14810000, 400000>> :> 15210000 @@
    <<14810000, 970000>> :> 15780128 @@ <<14810000, 1000000>> :> 15810000 @@ <<14810000, 1420000>> :> 16230000 @@
    <<15210000, 0>> :> 15210000 @@ <<15210000, 670000>> :> 15880000 @@ <<15780128, 0>> :> 15780128 @@
    <<15780128, 820000>> :> 16600000 @@ <<15809872, 10000>> :> 15819872 @@ <<15810000, 0>> :> 15810000 @@
    <<15810000, 10000>> :> 15820000 @@ <<15810000, 1000000>> :> 16810256 @@ <<16230000, 0>> :> 16230000 @@
    <<16230000, 780000>> :> 17010000 @@ <<16800000, 400000>> :> 17200000 @@ <<16800000, 970000>> :> 17770000 @@
    <<16800000, 1000000>> :> 17800000 @@ <<16800000, 1420000>> :> 18220000 @@ <<17000000, 10000>> :> 17010000 @@
    <<17200000, 0>> :> 17200000 @@ <<17200000, 670000>> :> 17870000 @@ <<17770000, 0>> :> 17770000 @@
    <<17770000, 820000>> :> 18590000 @@ <<17799744, 10000>> :> 17810000 @@ <<17800000, 0>> :> 17800000 @@
    <<17800000, 10000>> :> 17810256 @@ <<17800000, 1000000>> :> 18800000 @@ <<18000000, 10000>> :> 18010000 @@
    <<18220000, 0>> :> 18220000 @@ <<18220000, 780000>> :> 19000000 @@ <<18510000, 400000>> :> 18910000 @@
    <<18510000, 970000>> :> 19480000 @@ <<18510000, 1000000>> :> 19510000 @@ <<18510000, 1420000>> :> 19930000 @@
    <<18580000, 10000>> :> 18590000 @@ <<18910000, 0>> :> 18910000 @@ <<18910000, 670000>> :> 19580256 @@
    <<19480000, 0>> :> 19480000 @@ <<19480000, 820000>> :> 20300000 @@ <<19509744, 10000>> :> 19520000 @@
    <<19510000, 0>> :> 19510000 @@ <<19510000, 10000>> :> 19520256 @@ <<19510000, 1000000>> :> 20510000 @@
    <<19570000, 10000>> :> 19580256 @@ <<19930000, 0>> :> 19930000 @@ <<19930000, 780000>> :> 20710000

HourSubTable ==
    <<9070000, 6000000>> :> 3070032 @@ <<9070000, 7060000>> :> 2010064 @@ <<9070000, 7890000>> :> 1180048 @@
    <<9400000, 400000>> :> 9000000 @@ <<9790128, 6000000>> :> 3790064 @@ <<9790128, 7060000>> :> 2730096 @@
    <<9790128, 7890000>> :> 1900096 @@ <<9970000, 970000>> :> 9000000 @@ <<10000000, 1000000>> :> 9000000 @@
    <<10000000, 6000000>> :> 4000000 @@ <<10000000, 7060000>> :> 2940032 @@ <<10000000, 7890000>> :> 2110032 @@
    <<10040128, 8970000>> :> 1070016 @@ <<10200000, 6000000>> :> 4199936 @@ <<10200000, 7060000>> :> 3139968 @@
    <<10200000, 7890000>> :> 2309968 @@ <<10420000, 1420000>> :> 9000000 @@ <<10760128, 8970000>> :> 1790064 @@
    <<10970000, 8970000>> :> 2000000 @@ <<11170000, 8970000>> :> 2199936 @@ <<15880000, 6000000>> :> 9880000 @@
    <<15880000, 7060000>> :> 8820000 @@ <<15880000, 7890000>> :> 7990064 @@ <<15880000, 8970000>> :> 6910000 @@
    <<16210000, 400000>> :> 15810000 @@ <<16600000, 6000000>> :> 10600128 @@ <<16600000, 7060000>> :> 9540256 @@
    <<16600000, 7890000>> :> 8710000 @@ <<16600000, 8970000>> :> 7630064 @@ <<16780000, 970000>> :> 15810000 @@
    <<16810000, 1000000>> :> 15809872 @@ <<16810256, 6000000>> :> 10810128 @@ <<16810256, 7060000>> :> 9750256 @@
    <<16810256, 7890000>> :> 8920128 @@ <<16810256, 8970000>> :> 7840128 @@ <<17000000, 7890000>> :> 9110000 @@
    <<17010000, 6000000>> :> 11010128 @@ <<17010000, 7060000>> :> 9950256 @@ <<17010000, 7890000>> :> 9120128 @@
    <<17010000, 8970000>> :> 8040128 @@ <<17230000, 1420000>> :> 15810000 @@ <<17870000, 6000000>> :> 11870128 @@
    <<17870000, 7060000>> :> 10810128 @@ <<17870000, 8970000>> :> 8900000 @@ <<18000000, 6000000>> :> 12000000 @@
    <<18200000, 400000>> :> 17800000 @@ <<18580000, 7060000>> :> 11520000 @@ <<18590000, 7060000>> :> 11530128 @@
    <<18590000, 8970000>> :> 9620000 @@ <<18770000, 970000>> :> 17800000 @@ <<18800000, 1000000>> :> 17800000 @@
    <<18800000, 8970000>> :> 9830000 @@ <<19000000, 8970000>> :> 10030000 @@ <<19220000, 1420000>> :> 17799744 @@
    <<19570000, 8970000>> :> 10600000 @@ <<19580256, 8970000>> :> 10610128 @@ <<19910000, 400000>> :> 19510000 @@
    <<20480000, 970000>> :> 19510000 @@ <<20510000, 1000000>> :> 19510000 @@ <<20930000, 1420000>> :> 19509744

\* a + b in floats
HourAdd(a, b) == HourAddTable[<<a, b>>]

\* a - b in floats
HourSub(a, b) == HourSubTable[<<a, b>>]

\* the float 0.01 of the time checks
HourEpsilon == 10000

\* calculate_travel_time_h in floats: 0.0 / 80.0 for a distance of 0.0 km
HourTravelTime(distance_km) == CASE distance_km = 0 -> 0

\* the body of the double loop for one (truck, order) in floats: None where
\* the code says "continue", otherwise the dict stored for the pair
PairValuesFloat(truck, order) ==
    IF truck.capacity_kg < order.weight_kg THEN None
    ELSE
    LET approach_distance == calculate_distance(truck.location, order.loading_site)
        approach_time_h == HourTravelTime(approach_distance)
        arrival_loading_site_truck_h == HourAdd(truck.available_from_h, approach_time_h)
        loading_start_calc_h ==
            Max2(arrival_loading_site_truck_h, order.loading_window_early_h)
        latest_loading_start_order_h ==
            HourSub(order.loading_window_late_h, order.loading_duration_h)
        loading_end_calc_h == HourAdd(loading_start_calc_h, order.loading_duration_h)
        transport_distance == calculate_distance(order.loading_site, order.unloading_site)
        transport_time_h == HourTravelTime(transport_distance)
        arrival_unloading_site_calc_h == HourAdd(loading_end_calc_h, transport_time_h)
        unloading_end_calc_h ==
            HourAdd(arrival_unloading_site_calc_h, order.unloading_duration_h)
        total_distance_for_order == approach_distance + transport_distance
    IN  IF loading_start_calc_h > HourAdd(latest_loading_start_order_h, HourEpsilon)
        THEN None
        ELSE IF unloading_end_calc_h > HourAdd(truck.available_until_h, HourEpsilon)
        THEN None
        ELSE [distanz_anfahrt |-> approach_distance,
              distanz_transport |-> transport_distance,
              distanz_gesamt_fuer_auftrag |-> total_distance_for_order,
              prio_original |-> order.priority,
              prio_gewicht |-> PRIORITIES_MAP(order.priority),
              anfahrt_lkw_h |-> arrival_loading_site_truck_h,
              ladebeginn_calc_h |-> loading_start_calc_h,
              ladeende_calc_h |-> loading_end_calc_h,
              ankunft_entladestelle_calc_h |-> arrival_unloading_site_calc_h,
              entladung_ende_calc_h |-> unloading_end_calc_h,
              gesamtdauer_auftrag_ab_lkw_start_h |->
                  HourSub(unloading_end_calc_h, truck.available_from_h)]

\* trucks available 7.89-17.0 h, 8.97-19.57 h, 6.0-18.0 h and 7.06-18.58 h
TourTrucks ==
    { Truck(1, 52, 20, 7890000, 17000000),
      Truck(1, 52, 20, 8970000, 19570000),
      Truck(1, 52, 20, 6000000, 18000000),
      Truck(1, 52, 20, 7060000, 18580000) }

\* the loading and unloading durations 1.42/0.78 h, 0.4/0.67 h, 0.97/0.82 h
\* and 1.0/1.0 h
TourDurations ==
    { <<1420000, 780000>>, <<400000, 670000>>, <<970000, 820000>>, <<1000000, 1000000>> }

\* orders with a loading window from 8.0, 14.81, 16.8 or 18.51 h that ends
\* one hour after the loading duration
TourOrders ==
    { Order(1, 52, 52, 10, early, early + d[1] + 1000000, d[1], d[2], 1) :
        <<early, d>> \in {8000000, 14810000, 16800000, 18510000} \X TourDurations }

\* the pass of the double loop for the truck and the order
TourDeterminePair ==
    /\ tour_pc = "pair"
    /\ tour_values' = PairValuesFloat(tour_truck, tour_order)
    /\ tour_pc' = "done"
    /\ UNCHANGED <<tour_truck, tour_order>>
    /\ UNCHANGED <<dispoVars, monoVars, c4Vars, c2Vars, detVars, ttVars, ctorVars,
                   owVars, o4Vars, tmsVars, apiVars>>

InitTour ==
    /\ tour_pc = "pair"
    /\ tour_truck \in TourTrucks
    /\ tour_order \in TourOrders
    /\ tour_values = None
    /\ DispoIdle
    /\ MonoIdle
    /\ C4Idle
    /\ C2Idle
    /\ DetIdle
    /\ TravelIdle
    /\ CtorIdle
    /\ OwIdle
    /\ O4Idle
    /\ TmsIdle
    /\ ApiIdle

NextTour == TourDeterminePair

SpecTour == InitTour /\ [][NextTour]_vars

\* the record of a feasible pair is stored
C26_Stored == tour_pc = "done" /\ tour_values # None

\* the start, end and distance entries of the record fit each other
C26_TimesConsistent ==
    C26_Stored =>
        /\ tour_values.ladebeginn_calc_h >= tour_order.loading_window_early_h
        /\ tour_values.ladebeginn_calc_h >= tour_truck.available_from_h
        /\ tour_values.ladeende_calc_h =
              HourAdd(tour_values.ladebeginn_calc_h, tour_order.loading_duration_h)
        /\ tour_values.entladung_ende_calc_h =
              HourAdd(HourAdd(tour_values.ladeende_calc_h,
                              HourTravelTime(tour_values.distanz_transport)),
                      tour_order.unloading_duration_h)
        /\ tour_values.distanz_gesamt_fuer_auftrag =
              tour_values.distanz_anfahrt + tour_values.distanz_transport
        /\ tour_values.gesamtdauer_auftrag_ab_lkw_start_h =
              HourSub(tour_values.entladung_ende_calc_h, tour_truck.available_from_h)

\* the tour is not longer than the availability of the truck plus 0.01 h
C26_DurationBounded ==
    C26_Stored =>
        tour_values.gesamtdauer_auftrag_ab_lkw_start_h
            <= HourAdd(HourSub(tour_truck.available_until_h, tour_truck.available_from_h),
                       HourEpsilon)

\* C26: every record of the feasibility map is internally consistent: loading
\* start >= loading_window_early and >= available_from, loading end = loading
\* start + loading duration, unloading end = loading end + transport time +
\* unloading duration, total distance = approach + transport distance, and
\* the tour duration is unloading end - available_from and is at most the
\* availability length of the truck + 0.01.
C26_RecordConsistent == C26_TimesConsistent /\ C26_DurationBounded

-----------------------------------------------------------------------------
(* Claims about the cost-minimisation model of pulp-1-c4.py                *)
(* (specification SpecC4)                                                    *)

\* every pair cost of the cost matrix is strictly positive
C27_CostsPositive ==
    cost_matrix # None => \A key \in DOMAIN cost_matrix : cost_matrix[key] > 0

\* solve has returned an OptimizationResult with status Optimal
C27_ReturnedOptimal ==
    c4_pc \in {"done", "analyzed"} /\ c4_result.status = "Optimal"

\* C27: every pair cost is strictly positive and nothing forces an order to
\* be assigned, so TruckOrderOptimizer.solve with status Optimal returns an
\* empty assignment list, objective 0 and all order ids as unassigned.
C27_OptimumAssignsNothing ==
    /\ C27_CostsPositive
    /\ C27_ReturnedOptimal =>
          /\ c4_result.assignments = <<>>
          /\ c4_result.total_cost = 0
          /\ c4_result.objective_value = 0
          /\ c4_result.unassigned_orders =
                [j \in 1..Len(c4_orders) |-> c4_orders[j].order_id]

\* two trucks and two orders with a feasible pair, and nothing is assigned
C27_Witness ==
    /\ C27_ReturnedOptimal
    /\ Len(c4_trucks) = 2
    /\ Len(c4_orders) = 2
    /\ \E key \in DOMAIN cost_matrix : cost_matrix[key] # BIG_M
    /\ c4_result.assignments = <<>>
    /\ Len(c4_result.unassigned_orders) = 2

-----------------------------------------------------------------------------
(* pulp-1-o4.py: the capacity-aware model, build_and_solve and              *)
(* process_results (specification SpecO4).  Trucks and orders are objects   *)
(* of the classes Truck and Order, which store their arguments unchecked;   *)
(* the id T<i> / O<j> is modelled by the number i / j.  Coordinates are     *)
(* drawn from {0, 3} x {0, 4}, where math.hypot is exact.                    *)

O4Capacities == {10, 20}
O4Weights == {1, 10}
O4Priorities == {1, 5}
O4TruckLats == {0, 3}

\* math.hypot on the coordinates used here
euclidean_distance(a_lat, a_lon, b_lat, b_lon) ==
    LET dx == Abs(a_lat - b_lat)
        dy == Abs(a_lon - b_lon)
    IN CHOOSE d \in 0..(dx + dy) : d * d = dx * dx + dy * dy

O4Truck(i, capacity, lat) == [id |-> i, capacity |-> capacity, lat |-> lat, lon |-> 0]

O4Order(j, weight, priority) == [id |-> j, weight |-> weight, lat |-> 0, lon |-> 4, priority |-> priority]

O4TruckLists ==
    UNION { { [i \in 1..n |-> O4Truck(i, c[i], l[i])] :
                c \in [1..n -> O4Capacities], l \in [1..n -> O4TruckLats] } :
            n \in 1..NumTrucks }

O4OrderLists ==
    UNION { { [j \in 1..n |-> O4Order(j, w[j], p[j])] :
                w \in [1..n -> O4Weights], p \in [1..n -> O4Priorities] } :
            n \in 1..NumOrders }

\* the keys of the dictionary x in insertion order: trucks outer, orders inner
O4Keys(trucks, orders) ==
    [k \in 1..(Len(trucks) * Len(orders)) |->
        << trucks[((k - 1) \div Len(orders)) + 1].id,
           orders[((k - 1) % Len(orders)) + 1].id >>]

\* the problem without the constraints "Cap_<truck id>"
build_and_solve_NoCapacity(trucks, orders) ==
    LET keys == Range(O4Keys(trucks, orders))
        cost == [key \in keys |->
                   euclidean_distance(trucks[key[1]].lat, trucks[key[1]].lon,
                                      orders[key[2]].lat, orders[key[2]].lon)]
        objective == [key \in keys |-> cost[key] * (6 - orders[key[2]].priority)]
        assign == { Constraint(<<"AssignOrder", orders[j].id>>,
                               [key \in keys |-> IF key[2] = orders[j].id THEN 1 ELSE 0],
                               "==", 1) : j \in 1..Len(orders) }
    IN [sense |-> "LpMinimize", objective |-> objective, constraints |-> assign]

\* the LpProblem "LKW_Zuweisung" that build_and_solve hands to the solver
build_and_solve(trucks, orders) ==
    LET keys == Range(O4Keys(trucks, orders))
        cost == [key \in keys |->
                   euclidean_distance(trucks[key[1]].lat, trucks[key[1]].lon,
                                      orders[key[2]].lat, orders[key[2]].lon)]
        objective == [key \in keys |-> cost[key] * (6 - orders[key[2]].priority)]
        assign == { Constraint(<<"AssignOrder", orders[j].id>>,
                               [key \in keys |-> IF key[2] = orders[j].id THEN 1 ELSE 0],
                               "==", 1) : j \in 1..Len(orders) }
        cap == { Constraint(<<"Cap", trucks[i].id>>,
                            [key \in keys |-> IF key[1] = trucks[i].id
                                              THEN orders[key[2]].weight ELSE 0],
                            "<=", trucks[i].capacity) : i \in 1..Len(trucks) }
    IN [sense |-> "LpMinimize", objective |-> objective, constraints |-> assign \cup cap]

\* process_results: nothing unless the status is Optimal; otherwise the
\* assignment rows in the order of x.items(), the total cost and the
\* utilization of every truck
process_results(trucks, orders, x, status_str) ==
    IF status_str # "Optimal" THEN None
    ELSE
    LET keys == O4Keys(trucks, orders)
        chosen == SelectSeq(keys, LAMBDA key : 2 * x[key] > 1)
        row(key) == [truck_id |-> key[1],
                     order_id |-> key[2],
                     distance |-> euclidean_distance(trucks[key[1]].lat, trucks[key[1]].lon,
                                                     orders[key[2]].lat, orders[key[2]].lon),
                     weight |-> orders[key[2]].weight,
                     priority |-> orders[key[2]].priority]
        rows == [k \in 1..Len(chosen) |-> row(chosen[k])]
    IN [assignments |-> rows,
        total_cost |-> SumOver(1..Len(rows),
                               [k \in 1..Len(rows) |-> rows[k].distance * (6 - rows[k].priority)]),
        utilization |-> [i \in 1..Len(trucks) |->
                           SumOver({k \in 1..Len(rows) : rows[k].truck_id = trucks[i].id},
                                   [k \in 1..Len(rows) |-> rows[k].weight])]]

\* build_and_solve: build the problem and let the solver run
O4BuildAndSolve ==
    /\ o4_pc = "build"
    /\ \E outcome \in SolverOutcomes(build_and_solve(o4_trucks, o4_orders),
                                     Range(O4Keys(o4_trucks, o4_orders))) :
          /\ o4_x' = outcome.values
          /\ o4_status' = outcome.status
    /\ o4_pc' = "process"
    /\ UNCHANGED <<o4_trucks, o4_orders, o4_report>>
    /\ UNCHANGED <<dispoVars, monoVars, c4Vars, c2Vars, detVars, ttVars, ctorVars,
                   owVars, tmsVars, apiVars, tourVars>>

\* process_results(trucks, orders, x, status)
O4ProcessResults ==
    /\ o4_pc = "process"
    /\ o4_report' = process_results(o4_trucks, o4_orders, o4_x, o4_status)
    /\ o4_pc' = "done"
    /\ UNCHANGED <<o4_trucks, o4_orders, o4_x, o4_status>>
    /\ UNCHANGED <<dispoVars, monoVars, c4Vars, c2Vars, detVars, ttVars, ctorVars,
                   owVars, tmsVars, apiVars, tourVars>>

InitO4 ==
    /\ o4_pc = "build"
    /\ o4_trucks \in O4TruckLists
    /\ o4_orders \in O4OrderLists
    /\ o4_x = None
    /\ o4_status = NoStatus
    /\ o4_report = None
    /\ DispoIdle
    /\ MonoIdle
    /\ C4Idle
    /\ C2Idle
    /\ DetIdle
    /\ TravelIdle
    /\ CtorIdle
    /\ OwIdle
    /\ TmsIdle
    /\ ApiIdle
    /\ TourIdle

NextO4 == O4BuildAndSolve \/ O4ProcessResults

SpecO4 == InitO4 /\ [][NextO4]_vars

\* the ways of giving every order one truck such that no truck carries more
\* than its capacity
C28_CompleteAssignments ==
    { f \in [1..Len(o4_orders) -> 1..Len(o4_trucks)] :
        \A i \in 1..Len(o4_trucks) :
            SumOver({j \in 1..Len(o4_orders) : f[j] = i},
                    [j \in 1..Len(o4_orders) |-> o4_orders[j].weight])
              <= o4_trucks[i].capacity }

\* the variable values give every order exactly one truck within capacity
C28_ValuesComplete ==
    /\ \A j \in 1..Len(o4_orders) :
          Cardinality({i \in 1..Len(o4_trucks) : o4_x[<<i, j>>] = 1}) = 1
    /\ \A key \in DOMAIN o4_x : o4_x[key] \in {0, 1}
    /\ \A i \in 1..Len(o4_trucks) :
          SumOver({j \in 1..Len(o4_orders) : o4_x[<<i, j>>] = 1},
                  [j \in 1..Len(o4_orders) |-> o4_orders[j].weight])
            <= o4_trucks[i].capacity

\* the report names every order exactly once and no truck above its capacity
C28_ReportComplete ==
    /\ \A j \in 1..Len(o4_orders) :
          Cardinality({k \in 1..Len(o4_report.assignments) :
                         o4_report.assignments[k].order_id = j}) = 1
    /\ \A i \in 1..Len(o4_trucks) : o4_report.utilization[i] <= o4_trucks[i].capacity

\* C28: with status Optimal every order is assigned to exactly one truck
\* and every truck carries at most its capacity; when no complete assignment
\* exists the status is not Optimal and process_results reports nothing.
C28_OptimalIsCompleteWithinCapacity ==
    /\ (o4_pc \in {"process", "done"} /\ o4_status = "Optimal") => C28_ValuesComplete
    /\ (o4_pc = "done" /\ o4_status = "Optimal") => C28_ReportComplete
    /\ (o4_pc \in {"process", "done"} /\ C28_CompleteAssignments = {}) => o4_status # "Optimal"
    /\ (o4_pc = "done" /\ o4_status # "Optimal") => o4_report = None

\* two orders of weight 10 and two trucks of capacity 10: the optimum gives
\* each truck one order, and the report shows both trucks full
C28_Witness ==
    /\ o4_pc = "done"
    /\ o4_status = "Optimal"
    /\ Len(o4_trucks) = 2
    /\ Len(o4_orders) = 2
    /\ \A j \in 1..2 : o4_orders[j].weight = 10
    /\ \A i \in 1..2 : o4_trucks[i].capacity = 10
    /\ Len(o4_report.assignments) = 2
    /\ \A i \in 1..2 : o4_report.utilization[i] = 10

\* one truck of capacity 10 and two orders of weight 10: no complete
\* assignment exists and nothing is reported
C28_WitnessInfeasible ==
    /\ o4_pc = "done"
    /\ C28_CompleteAssignments = {}
    /\ o4_status = "Infeasible"
    /\ o4_report = None

-----------------------------------------------------------------------------
(* tms_o4.py: greedy_assignment (specifications SpecTms and SpecTmsLive).   *)
(* Trucks and orders are the rows generate_demo_data writes: an id          *)
(* (Truck_<i>, Order_<j>, modelled by the number) and coordinates, drawn    *)
(* here from {0, 3} x {0, 4}, where math.hypot is exact.                     *)

TmsLats == {0, 3}
TmsLons == {0, 4}

TmsRows(n) ==
    { [i \in 1..n |-> [id |-> i, lat |-> la[i], lon |-> lo[i]]] :
        la \in [1..n -> TmsLats], lo \in [1..n -> TmsLons] }

TmsTruckLists == UNION { TmsRows(n) : n \in 0..NumTrucks }

TmsOrderLists == UNION { TmsRows(n) : n \in 0..NumOrders }

\* euclidean_distance(a, b) of tms_o4.py
tms_euclidean_distance(a, b) == euclidean_distance(a.lat, a.lon, b.lat, b.lon)

\* a search that keeps the farthest pair instead of the closest
BestPair_Farthest(rt, ro) ==
    LET pairs == (1..Len(rt)) \X (1..Len(ro))
        d(p) == tms_euclidean_distance(rt[p[1]], ro[p[2]])
        rank(p) == (p[1] - 1) * Len(ro) + p[2]
        far == { p \in pairs : \A q \in pairs : d(p) >= d(q) }
    IN CHOOSE p \in far : \A q \in far : rank(p) <= rank(q)

\* the two nested loops of greedy_assignment: the first pair, trucks
\* outer and orders inner, whose distance is below every earlier one
BestPair(rt, ro) ==
    LET pairs == (1..Len(rt)) \X (1..Len(ro))
        d(p) == tms_euclidean_distance(rt[p[1]], ro[p[2]])
        rank(p) == (p[1] - 1) * Len(ro) + p[2]
        near == { p \in pairs : \A q \in pairs : d(p) <= d(q) }
    IN CHOOSE p \in near : \A q \in near : rank(p) <= rank(q)

\* one pass of the while loop: commit the best pair and remove both rows;
\* round(best_dist, 2) of an integral distance is the distance itself
TmsAssignBestPair ==
    /\ tms_pc = "loop"
    /\ remaining_trucks # <<>>
    /\ remaining_orders # <<>>
    /\ LET p == BestPair(remaining_trucks, remaining_orders)
           t == remaining_trucks[p[1]]
           o == remaining_orders[p[2]]
       IN /\ tms_assignments' = Append(tms_assignments,
                                       [truck_id |-> t.id, order_id |-> o.id,
                                        distance |-> tms_euclidean_distance(t, o)])
          /\ remaining_trucks' = RemoveFirst(remaining_trucks, t)
          /\ remaining_orders' = RemoveFirst(remaining_orders, o)
    /\ UNCHANGED <<tms_pc, tms_trucks, tms_orders>>
    /\ UNCHANGED <<dispoVars, monoVars, c4Vars, c2Vars, detVars, ttVars, ctorVars,
                   owVars, o4Vars, apiVars, tourVars>>

\* the loop condition fails: return assignments
TmsReturn ==
    /\ tms_pc = "loop"
    /\ remaining_trucks = <<>> \/ remaining_orders = <<>>
    /\ tms_pc' = "done"
    /\ UNCHANGED <<tms_trucks, tms_orders, remaining_trucks, remaining_orders, tms_assignments>>
    /\ UNCHANGED <<dispoVars, monoVars, c4Vars, c2Vars, detVars, ttVars, ctorVars,
                   owVars, o4Vars, apiVars, tourVars>>

\* greedy_assignment(trucks, orders) has copied its two arguments
InitTms ==
    /\ tms_pc = "loop"
    /\ tms_trucks \in TmsTruckLists
    /\ tms_orders \in TmsOrderLists
    /\ remaining_trucks = tms_trucks
    /\ remaining_orders = tms_orders
    /\ tms_assignments = <<>>
    /\ DispoIdle
    /\ MonoIdle
    /\ C4Idle
    /\ C2Idle
    /\ DetIdle
    /\ TravelIdle
    /\ CtorIdle
    /\ OwIdle
    /\ O4Idle
    /\ ApiIdle
    /\ TourIdle

NextTms == TmsAssignBestPair \/ TmsReturn

SpecTms == InitTms /\ [][NextTms]_vars

\* the interpreter keeps executing the loop until the function returns
SpecTmsLive == SpecTms /\ WF_vars(NextTms)

C29_Min(a, b) == IF a <= b THEN a ELSE b

\* every truck and every order appears at most once in the assignments
C29_EachAtMostOnce ==
    \A k, l \in 1..Len(tms_assignments) :
        k # l => /\ tms_assignments[k].truck_id # tms_assignments[l].truck_id
                 /\ tms_assignments[k].order_id # tms_assignments[l].order_id

\* the distances are non-decreasing in output order
C29_DistancesNonDecreasing ==
    \A k, l \in 1..Len(tms_assignments) :
        k < l => tms_assignments[k].distance <= tms_assignments[l].distance

\* the pair committed last is the closest of all pairs that were remaining
C29_CommitsClosest ==
    tms_assignments' # tms_assignments =>
        \A i \in 1..Len(remaining_trucks), j \in 1..Len(remaining_orders) :
            tms_assignments'[Len(tms_assignments')].distance
              <= tms_euclidean_distance(remaining_trucks[i], remaining_orders[j])

C29_Returned ==
    tms_pc = "done" => Len(tms_assignments) = C29_Min(Len(tms_trucks), Len(tms_orders))

\* C29: greedy_assignment terminates and returns min(#trucks, #orders)
\* assignments with every truck and order at most once; each step commits
\* the closest remaining pair, so the distances are non-decreasing.
C29_TerminatesWithClosestPairs ==
    /\ <>(tms_pc = "done")
    /\ [](C29_Returned /\ C29_EachAtMostOnce /\ C29_DistancesNonDecreasing)
    /\ [][C29_CommitsClosest]_vars

\* a returned list of two assignments with different distances
C29_Witness ==
    /\ tms_pc = "done"
    /\ Len(tms_trucks) = 2
    /\ Len(tms_orders) = 2
    /\ Len(tms_assignments) = 2
    /\ tms_assignments[1].distance < tms_assignments[2].distance
    /\ tms_assignments[1].truck_id = 2

-----------------------------------------------------------------------------
(* The result files of a run of main_dispo and their reading by             *)
(* api/server.py: get_latest_results (specification SpecFiles).  clock is   *)
(* the wall clock in whole seconds, the resolution of the stamp             *)
(* %Y%m%d_%H%M%S; a file "<prefix>_<stamp>.csv" is the record of its prefix *)
(* and its stamp.                                                            *)

MaxClock == 3       \* seconds that may pass during the run

\* the key of the results dictionary read from the file with each prefix
ResultKeyOfPrefix ==
    [p \in {"ergebnisse_zugewiesene_auftraege", "ergebnisse_nicht_zugewiesene_auftraege",
            "ergebnisse_lkw_auslastung", "rohdaten_lkw", "rohdaten_auftraege"} |->
        CASE p = "ergebnisse_zugewiesene_auftraege" -> "assigned_orders"
          [] p = "ergebnisse_nicht_zugewiesene_auftraege" -> "unassigned_orders"
          [] p = "ergebnisse_lkw_auslastung" -> "truck_utilization"
          [] p = "rohdaten_lkw" -> "raw_trucks"
          [] p = "rohdaten_auftraege" -> "raw_orders"]

\* save_csv_file(csv_string, filename_prefix) at the clock time now
save_csv_file(fs, filename_prefix, now) ==
    fs \cup {[prefix |-> filename_prefix, timestamp |-> now]}

\* get_latest_results: the files that carry the maximum stamp of the directory
get_latest_results(fs) ==
    IF fs = {} THEN None
    ELSE LET latest_timestamp == MaxOf({ f.timestamp : f \in fs })
         IN [keys |-> { ResultKeyOfPrefix[p] :
                          p \in { q \in DOMAIN ResultKeyOfPrefix :
                                    [prefix |-> q, timestamp |-> latest_timestamp] \in fs } }]

ApiFrame == UNCHANGED <<dispoVars, monoVars, c4Vars, c2Vars, detVars, ttVars, ctorVars, owVars, o4Vars, tmsVars, tourVars>>

\* a second passes
ApiTick ==
    /\ clock < MaxClock
    /\ clock' = clock + 1
    /\ UNCHANGED <<api_pc, files, api_results>>
    /\ ApiFrame

ApiSaveRawTrucks ==
    /\ api_pc = "save_rohdaten_lkw"
    /\ files' = save_csv_file(files, "rohdaten_lkw", clock)
    /\ api_pc' = "save_rohdaten_auftraege"
    /\ UNCHANGED <<clock, api_results>>
    /\ ApiFrame

ApiSaveRawOrders ==
    /\ api_pc = "save_rohdaten_auftraege"
    /\ files' = save_csv_file(files, "rohdaten_auftraege", clock)
    /\ api_pc' = "optimize"
    /\ UNCHANGED <<clock, api_results>>
    /\ ApiFrame

\* steps 2 to 5 of main_dispo, ending with the status Optimal
ApiOptimize ==
    /\ api_pc = "optimize"
    /\ api_pc' = "save_zugewiesene"
    /\ UNCHANGED <<clock, files, api_results>>
    /\ ApiFrame

ApiSaveAssigned ==
    /\ api_pc = "save_zugewiesene"
    /\ files' = save_csv_file(files, "ergebnisse_zugewiesene_auftraege", clock)
    /\ api_pc' = "save_nicht_zugewiesene"
    /\ UNCHANGED <<clock, api_results>>
    /\ ApiFrame

ApiSaveUnassigned ==
    /\ api_pc = "save_nicht_zugewiesene"
    /\ files' = save_csv_file(files, "ergebnisse_nicht_zugewiesene_auftraege", clock)
    /\ api_pc' = "save_lkw_auslastung"
    /\ UNCHANGED <<clock, api_results>>
    /\ ApiFrame

ApiSaveTruckUtil ==
    /\ api_pc = "save_lkw_auslastung"
    /\ files' = save_csv_file(files, "ergebnisse_lkw_auslastung", clock)
    /\ api_pc' = "beendet"
    /\ UNCHANGED <<clock, api_results>>
    /\ ApiFrame

\* the server reads the results after the run has ended
ApiGetLatestResults ==
    /\ api_pc = "beendet"
    /\ api_results' = get_latest_results(files)
    /\ api_pc' = "read"
    /\ UNCHANGED <<clock, files>>
    /\ ApiFrame

\* main_dispo has generated its data; the result directory is empty
InitFiles ==
    /\ api_pc = "save_rohdaten_lkw"
    /\ clock = 0
    /\ files = {}
    /\ api_results = None
    /\ DispoIdle
    /\ MonoIdle
    /\ C4Idle
    /\ C2Idle
    /\ DetIdle
    /\ TravelIdle
    /\ CtorIdle
    /\ OwIdle
    /\ O4Idle
    /\ TmsIdle
    /\ TourIdle

NextFiles ==
    \/ ApiTick
    \/ ApiSaveRawTrucks
    \/ ApiSaveRawOrders
    \/ ApiOptimize
    \/ ApiSaveAssigned
    \/ ApiSaveUnassigned
    \/ ApiSaveTruckUtil
    \/ ApiGetLatestResults

SpecFiles == InitFiles /\ [][NextFiles]_vars

\* C30: after a run with status Optimal, get_latest_results returns all
\* five data sets of the run, whatever time passes between the saves.
C30_ReadBackTogether ==
    api_pc = "read" =>
        /\ api_results # None
        /\ api_results.keys = {"assigned_orders", "unassigned_orders", "truck_utilization",
                               "raw_trucks", "raw_orders"}

\* all five files were saved within the same second: all five are read
C30_SameSecondReadsAll ==
    (api_pc = "read" /\ Cardinality({ f.timestamp : f \in files }) = 1) =>
        api_results.keys = {"assigned_orders", "unassigned_orders", "truck_utilization",
                            "raw_trucks", "raw_orders"}

\* the raw files were saved a second before the result files and are not read
C30_RawDataMissing ==
    /\ api_pc = "read"
    /\ Cardinality(files) = 5
    /\ api_results.keys = {"assigned_orders", "unassigned_orders", "truck_utilization"}

====
